---- MODULE Spec2Model ----
(***************************************************************************)
(* Digital Tailor pipeline (tools/tailor): 01_slice.py, 02_tailor.py,      *)
(* 03_stitch.py and run_pipeline.py, modelled on a workspace of PNG files. *)
(* An image is a record [bad, w, h, px], px the sequence of its pixel rows  *)
(* and a pixel <<r, g, b, a>>; bad marks a file that Image.open cannot     *)
(* decode.  A file name is the sequence of its characters, so formatting   *)
(* and parsing are computed.                                               *)
(***************************************************************************)
EXTENDS Integers, Sequences, FiniteSets, TLC

\* ---------------------------------------------------------------------------
\* Program constants
\* ---------------------------------------------------------------------------
TILE_SIZE == 64

SHEET_COLS == 13

SHEET_ROWS == 21

\* Variant: every row of the standard sheet is validated
WALK_ROWS_all == 0..(SHEET_ROWS - 1)

WALK_ROWS == {7, 8, 9, 10}

SKIN_TONES ==
  << [r_min |-> 200, r_max |-> 255, g_min |-> 160, g_max |-> 220, b_min |-> 130, b_max |-> 190],
     [r_min |-> 180, r_max |-> 230, g_min |-> 130, g_max |-> 180, b_min |-> 100, b_max |-> 160],
     [r_min |-> 100, r_max |-> 180, g_min |-> 70,  g_max |-> 140, b_min |-> 50,  b_max |-> 120] >>

CHEST_BOX == [x1 |-> 24, y1 |-> 28, x2 |-> 42, y2 |-> 48]

DEFAULT_TOLERANCE == 5

MIN_COVERAGE == 140

\* ---------------------------------------------------------------------------
\* Bounds of the model
\* ---------------------------------------------------------------------------
MaxRows == 2

MaxCols == 2

MaxSteps == 3

MaxTolerance == 6

MaxLayers == 2

MaxSessions == 2

MaxPosts == 2

MaxTiles == 2

MaxStrays == 1

\* ---------------------------------------------------------------------------
\* Pixels and images
\* ---------------------------------------------------------------------------
Min(a, b) == IF a <= b THEN a ELSE b

Clear == <<0, 0, 0, 0>>

\* Pixel (x, y) of an image, x and y counted from 0 as the code does
Pix(img, x, y) == img.px[y + 1][x + 1]

ClearRow(n) == [i \in 1..n |-> Clear]

NewImage(w, h, color) ==
  [bad |-> FALSE, w |-> w, h |-> h,
   px |-> [y \in 1..h |-> [x \in 1..w |-> color]]]

BadFile == [bad |-> TRUE, w |-> 0, h |-> 0, px |-> <<>>]

\* Image.crop((left, top, right, bottom)): pixels outside the source image
\* read as transparent black.
Crop(img, left, top, right, bottom) ==
  [bad |-> FALSE, w |-> right - left, h |-> bottom - top,
   px |-> [y \in 1..(bottom - top) |->
            IF top + y <= img.h
            THEN SubSeq(img.px[top + y], left + 1, Min(right, img.w))
                   \o ClearRow(right - Min(right, img.w))
            ELSE ClearRow(right - left)]]

\* Variant: a tile counts as empty only when every band of every pixel is zero
BBoxIsNone_anyband(img) ==
  \A y \in 0..(img.h - 1) : \A x \in 0..(img.w - 1) : Pix(img, x, y) = Clear

\* Image.getbbox() is None on an RGBA image: no pixel has non-zero alpha
\* (the library versions that have Image.Resampling, which 03_stitch.py
\* uses, trim RGBA images by alpha alone).
BBoxIsNone(img) ==
  \A y \in 0..(img.h - 1) : \A x \in 0..(img.w - 1) : Pix(img, x, y)[4] = 0

\* Image.paste(tile, (x0, y0)) without a mask: the box is overwritten,
\* clipped to the destination.
Paste(dst, tile, x0, y0) ==
  [dst EXCEPT !.px =
     [y \in 1..dst.h |->
        IF y > y0 /\ y <= y0 + tile.h
        THEN SubSeq(dst.px[y], 1, x0)
               \o SubSeq(tile.px[y - y0], 1, Min(tile.w, dst.w - x0))
               \o SubSeq(dst.px[y], x0 + tile.w + 1, dst.w)
        ELSE dst.px[y]]]

\* Image.resize((w, h), NEAREST): output pixel centre mapped back to the source.
ResizeNearest(img, w, h) ==
  [bad |-> FALSE, w |-> w, h |-> h,
   px |-> [y \in 1..h |-> [x \in 1..w |->
            Pix(img, ((2 * x - 1) * img.w) \div (2 * w),
                     ((2 * y - 1) * img.h) \div (2 * h))]]]

ShiftForDiv255(a) == (((a \div 256) + a) \div 256)

\* Variant: the blend truncates instead of rounding
OverChannel_truncating(s, d, coef1, coef2) ==
  ShiftForDiv255(s * coef1 + d * coef2) \div 128

OverChannel(s, d, coef1, coef2) ==
  ShiftForDiv255(s * coef1 + d * coef2 + 128 * 128) \div 128

\* One pixel of Image.alpha_composite: src (overlay) over dst (base), in the
\* library's 7-bit fixed-point arithmetic.
Over(dst, src) ==
  IF src[4] = 0 THEN dst
  ELSE LET blend   == dst[4] * (255 - src[4])
           outa255 == src[4] * 255 + blend
           coef1   == (src[4] * 255 * 255 * 128) \div outa255
           coef2   == 255 * 128 - coef1
       IN << OverChannel(src[1], dst[1], coef1, coef2),
             OverChannel(src[2], dst[2], coef1, coef2),
             OverChannel(src[3], dst[3], coef1, coef2),
             ShiftForDiv255(outa255 + 128) >>

\* body.alpha_composite(robe), the in-place method with dest = source = (0,0):
\* the overlay is composited over the top-left box it covers, clipped to body.
AlphaComposite(body, robe) ==
  [body EXCEPT !.px =
     [y \in 1..body.h |-> [x \in 1..body.w |->
        IF x <= robe.w /\ y <= robe.h
        THEN Over(body.px[y][x], robe.px[y][x])
        ELSE body.px[y][x]]]]

\* ---------------------------------------------------------------------------
\* File names: sequences of characters
\* ---------------------------------------------------------------------------
DigitChars == <<"0", "1", "2", "3", "4", "5", "6", "7", "8", "9">>

\* Character codes, for the order sorted() puts the names in.
Ord(ch) ==
  CASE ch = " " -> 32 [] ch = "+" -> 43 [] ch = "-" -> 45 [] ch = "." -> 46
    [] ch = "0" -> 48 [] ch = "1" -> 49 [] ch = "2" -> 50 [] ch = "3" -> 51
    [] ch = "4" -> 52 [] ch = "5" -> 53 [] ch = "6" -> 54 [] ch = "7" -> 55
    [] ch = "8" -> 56 [] ch = "9" -> 57 [] ch = "_" -> 95 [] ch = "g" -> 103
    [] ch = "n" -> 110 [] ch = "p" -> 112 [] ch = "x" -> 120

IsDigit(ch) == \E i \in 1..10 : DigitChars[i] = ch

DigitVal(ch) == (CHOOSE i \in 1..10 : DigitChars[i] = ch) - 1

Png == <<".", "p", "n", "g">>

RECURSIVE Dec(_)
\* str(n) for n >= 0
Dec(n) == IF n < 10 THEN <<DigitChars[n + 1]>>
          ELSE Dec(n \div 10) \o <<DigitChars[(n % 10) + 1]>>

\* f"{r}_{c}.png"
FrameFilename(r, c) == Dec(r) \o <<"_">> \o Dec(c) \o Png

RECURSIVE RemovePng(_)
\* name.replace(".png", "")
RemovePng(s) ==
  IF s = <<>> THEN <<>>
  ELSE IF Len(s) >= 4 /\ SubSeq(s, 1, 4) = Png
       THEN RemovePng(SubSeq(s, 5, Len(s)))
       ELSE <<Head(s)>> \o RemovePng(Tail(s))

RECURSIVE SplitUnderscore(_, _)
\* s.split("_"), cur being the part read so far
SplitUnderscore(s, cur) ==
  IF s = <<>> THEN <<cur>>
  ELSE IF Head(s) = "_"
       THEN <<cur>> \o SplitUnderscore(Tail(s), <<>>)
       ELSE SplitUnderscore(Tail(s), Append(cur, Head(s)))

RECURSIVE StripLeft(_)
StripLeft(s) == IF s # <<>> /\ Head(s) = " " THEN StripLeft(Tail(s)) ELSE s

RECURSIVE StripRight(_)
StripRight(s) ==
  IF s # <<>> /\ s[Len(s)] = " " THEN StripRight(SubSeq(s, 1, Len(s) - 1)) ELSE s

RECURSIVE DigitsValue(_, _)
DigitsValue(s, acc) ==
  IF s = <<>> THEN acc ELSE DigitsValue(Tail(s), 10 * acc + DigitVal(Head(s)))

\* int(s): surrounding blanks stripped, an optional sign, then digits only;
\* ok = FALSE stands for ValueError.
ParseInt(s) ==
  LET t    == StripRight(StripLeft(s))
      sgn  == t # <<>> /\ Head(t) \in {"+", "-"}
      body == IF sgn THEN Tail(t) ELSE t
  IN IF body = <<>> \/ \E i \in 1..Len(body) : ~IsDigit(body[i])
     THEN [ok |-> FALSE, val |-> 0]
     ELSE [ok |-> TRUE,
           val |-> IF sgn /\ Head(t) = "-" THEN 0 - DigitsValue(body, 0)
                   ELSE DigitsValue(body, 0)]

RECURSIVE NameLess(_, _)
\* a < b as Python compares strings
NameLess(a, b) ==
  IF b = <<>> THEN FALSE
  ELSE IF a = <<>> THEN TRUE
  ELSE IF Head(a) = Head(b) THEN NameLess(Tail(a), Tail(b))
  ELSE Ord(Head(a)) < Ord(Head(b))

RECURSIVE SortedNames(_)
\* sorted(dir.glob("*.png"))
SortedNames(S) ==
  IF S = {} THEN <<>>
  ELSE LET m == CHOOSE n \in S : \A o \in S : o = n \/ NameLess(n, o)
       IN <<m>> \o SortedNames(S \ {m})

EndsWithPng(s) == Len(s) >= 4 /\ SubSeq(s, Len(s) - 3, Len(s)) = Png

\* ---------------------------------------------------------------------------
\* 02_tailor.py: skin classifier and leak validation
\* ---------------------------------------------------------------------------
InTone(tone, r, g, b) ==
  /\ tone.r_min <= r /\ r <= tone.r_max
  /\ tone.g_min <= g /\ g <= tone.g_max
  /\ tone.b_min <= b /\ b <= tone.b_max

\* Variant: the ordering test with strict comparisons
ToneHeuristic_strict(r, g, b) == r > g /\ 10 * g > 9 * b

\* r >= g and g >= b * 0.9 (on 0..255 the float test equals 10g >= 9b)
ToneHeuristic(r, g, b) == r >= g /\ 10 * g >= 9 * b

is_skin_pixel(pixel) ==
  LET r == pixel[1]
      g == pixel[2]
      b == pixel[3]
      a == pixel[4]
  IN IF a < 200 THEN FALSE
     ELSE \E i \in 1..Len(SKIN_TONES) :
            InTone(SKIN_TONES[i], r, g, b) /\ ToneHeuristic(r, g, b)

\* The (x, y) positions validate_coverage visits, in visiting order:
\* for y in range(y1, min(y2, height)): for x in range(x1, min(x2, width)).
ChestPositions(img) ==
  LET xe == Min(CHEST_BOX.x2, img.w)
      ye == Min(CHEST_BOX.y2, img.h)
      wd == IF xe > CHEST_BOX.x1 THEN xe - CHEST_BOX.x1 ELSE 0
      ht == IF ye > CHEST_BOX.y1 THEN ye - CHEST_BOX.y1 ELSE 0
  IN [i \in 1..(wd * ht) |->
        <<CHEST_BOX.x1 + ((i - 1) % wd), CHEST_BOX.y1 + ((i - 1) \div wd)>>]

\* Variant: the tolerance compared with < instead of <=
validate_coverage_strict(img, row, col, tolerance) ==
  LET leak_pixels ==
        SelectSeq(ChestPositions(img), LAMBDA p : is_skin_pixel(Pix(img, p[1], p[2])))
  IN [row |-> row, col |-> col,
      passed |-> Len(leak_pixels) < tolerance,
      leak_count |-> Len(leak_pixels),
      leak_pixels |-> leak_pixels]

\* Variant: counting stops at the first pixel beyond the tolerance
validate_coverage_capped(img, row, col, tolerance) ==
  LET leak_pixels ==
        SelectSeq(ChestPositions(img), LAMBDA p : is_skin_pixel(Pix(img, p[1], p[2])))
      kept == SubSeq(leak_pixels, 1, Min(Len(leak_pixels), tolerance + 1))
  IN [row |-> row, col |-> col,
      passed |-> Len(kept) <= tolerance,
      leak_count |-> Len(kept),
      leak_pixels |-> kept]

validate_coverage(img, row, col, tolerance) ==
  LET leak_pixels ==
        SelectSeq(ChestPositions(img), LAMBDA p : is_skin_pixel(Pix(img, p[1], p[2])))
  IN [row |-> row, col |-> col,
      passed |-> Len(leak_pixels) <= tolerance,
      leak_count |-> Len(leak_pixels),
      leak_pixels |-> leak_pixels]

\* ---------------------------------------------------------------------------
\* 01_slice.py
\* ---------------------------------------------------------------------------
\* Directory contents after mkdir(parents=True, exist_ok=True)
DirOf(ws, dir) == IF dir \in DOMAIN ws THEN ws[dir] ELSE <<>>

\* Variant: row and column exchanged in the crop box
CellTile_swapped(sheet, r, c) ==
  Crop(sheet, r * TILE_SIZE, c * TILE_SIZE,
       r * TILE_SIZE + TILE_SIZE, c * TILE_SIZE + TILE_SIZE)

\* The tile slice_sheet crops for cell (r, c)
CellTile(sheet, r, c) ==
  Crop(sheet, c * TILE_SIZE, r * TILE_SIZE,
       c * TILE_SIZE + TILE_SIZE, r * TILE_SIZE + TILE_SIZE)

\* slice_sheet(sheet_path, label, output_dir): sh are the sheet files,
\* ws the workspace directories.  raised = TRUE stands for an exception,
\* written are the names passed to tile.save, warned tells that the
\* dimension warning was printed, rows and cols are the grid that was cropped.
slice_sheet(sh, ws, sheet_path, label) ==
  IF sheet_path \notin DOMAIN sh
  THEN [fs |-> ws, count |-> 0, raised |-> FALSE, written |-> {},
        warned |-> FALSE, rows |-> 0, cols |-> 0]
  ELSE IF sh[sheet_path].bad
  THEN [fs |-> ws, count |-> 0, raised |-> TRUE, written |-> {},
        warned |-> FALSE, rows |-> 0, cols |-> 0]
  ELSE
    LET sheet == sh[sheet_path]
        rows  == sheet.h \div TILE_SIZE
        cols  == sheet.w \div TILE_SIZE
        kept  == {rc \in (0..(rows - 1)) \X (0..(cols - 1)) :
                    ~BBoxIsNone(CellTile(sheet, rc[1], rc[2]))}
        names == {FrameFilename(rc[1], rc[2]) : rc \in kept}
        old   == DirOf(ws, label)
        dir   == [n \in (DOMAIN old) \cup names |->
                    IF n \in names
                    THEN LET rc == CHOOSE q \in kept : FrameFilename(q[1], q[2]) = n
                         IN CellTile(sheet, rc[1], rc[2])
                    ELSE old[n]]
    IN [fs |-> [d \in (DOMAIN ws) \cup {label} |-> IF d = label THEN dir ELSE ws[d]],
        count |-> Cardinality(kept), raised |-> FALSE, written |-> names,
        warned |-> sheet.w # SHEET_COLS * TILE_SIZE, rows |-> rows, cols |-> cols]

\* ---------------------------------------------------------------------------
\* 03_stitch.py
\* ---------------------------------------------------------------------------
\* Cells in the order of "for r in range(rows): for c in range(cols)"
CellOrder(rows, cols) ==
  [i \in 1..(rows * cols) |-> <<(i - 1) \div cols, (i - 1) % cols>>]

\* Variant: row and column exchanged in the paste position
PasteOrigin_swapped(r, c) == <<r * TILE_SIZE, c * TILE_SIZE>>

\* Pixel origin (x, y) at which stitch_sheet pastes cell (r, c)
PasteOrigin(r, c) == <<c * TILE_SIZE, r * TILE_SIZE>>

\* Variant: the tile is pasted in the size it has
FitTile_asis(tile) == tile

\* The tile pasted for a frame file: resized when it is not TILE_SIZE square
FitTile(tile) ==
  IF tile.w # TILE_SIZE \/ tile.h # TILE_SIZE
  THEN ResizeNearest(tile, TILE_SIZE, TILE_SIZE)
  ELSE tile

RECURSIVE StitchLoop(_, _, _, _)
\* The paste loop from cell number i on; acc = [sheet, placed, missing, raised]
StitchLoop(dir, cells, i, acc) ==
  IF i > Len(cells) \/ acc.raised THEN acc
  ELSE LET r    == cells[i][1]
           c    == cells[i][2]
           name == FrameFilename(r, c)
       IN IF name \in DOMAIN dir
          THEN IF dir[name].bad
               THEN [acc EXCEPT !.raised = TRUE]
               ELSE StitchLoop(dir, cells, i + 1,
                      [acc EXCEPT !.sheet = Paste(acc.sheet, FitTile(dir[name]),
                                                  PasteOrigin(r, c)[1], PasteOrigin(r, c)[2]),
                                  !.placed = acc.placed + 1])
          ELSE StitchLoop(dir, cells, i + 1, [acc EXCEPT !.missing = acc.missing + 1])

\* stitch_sheet(input_dir, output_file, rows, cols): outs are the output files
stitch_sheet(ws, outs, input_dir, output_file, rows, cols) ==
  IF input_dir \notin DOMAIN ws
  THEN [outputs |-> outs, ok |-> FALSE, raised |-> FALSE, placed |-> 0, missing |-> 0]
  ELSE
    LET blank == NewImage(cols * TILE_SIZE, rows * TILE_SIZE, Clear)
        done  == StitchLoop(ws[input_dir], CellOrder(rows, cols), 1,
                            [sheet |-> blank, placed |-> 0, missing |-> 0, raised |-> FALSE])
    IN IF done.raised
       THEN [outputs |-> outs, ok |-> FALSE, raised |-> TRUE,
             placed |-> done.placed, missing |-> done.missing]
       ELSE [outputs |-> [o \in (DOMAIN outs) \cup {output_file} |->
                            IF o = output_file THEN done.sheet ELSE outs[o]],
             ok |-> TRUE, raised |-> FALSE,
             placed |-> done.placed, missing |-> done.missing]

\* ---------------------------------------------------------------------------
\* 02_tailor.py: compositing
\* ---------------------------------------------------------------------------
\* Variant: with no robe file the body is composited over itself
composite_frame_selfover(body, robeExists, robe) ==
  IF robeExists THEN AlphaComposite(body, robe) ELSE AlphaComposite(body, body)

\* Variant: the body drawn on top of the robe
composite_frame_under(body, robeExists, robe) ==
  IF robeExists
  THEN [body EXCEPT !.px =
          [y \in 1..body.h |-> [x \in 1..body.w |->
             IF x <= robe.w /\ y <= robe.h
             THEN Over(robe.px[y][x], body.px[y][x])
             ELSE body.px[y][x]]]]
  ELSE body

\* composite_frame(body_path, robe_path) on files that open: robe is the
\* overlay file, or "none" when robe_path does not exist.
composite_frame(body, robeExists, robe) ==
  IF robeExists THEN AlphaComposite(body, robe) ELSE body

\* Store a file in a directory of the workspace
SaveFile(ws, dir, name, img) ==
  [d \in (DOMAIN ws) \cup {dir} |->
     IF d = dir
     THEN [n \in (DOMAIN DirOf(ws, dir)) \cup {name} |->
             IF n = name THEN img ELSE DirOf(ws, dir)[n]]
     ELSE ws[d]]

PngNames(dir) == {n \in DOMAIN dir : EndsWithPng(n)}

\* Variant: a frame that fails validation is not saved
TailorStep_gated(acc, body_dir, robe_dir, output_dir, validate_rows, name) ==
  LET parts == SplitUnderscore(RemovePng(name), <<>>)
  IN IF Len(parts) # 2 THEN acc
     ELSE
       LET pr == ParseInt(parts[1])
           pc == ParseInt(parts[2])
           body == acc.fs[body_dir][name]
           robeExists == robe_dir \in DOMAIN acc.fs /\ name \in DOMAIN acc.fs[robe_dir]
           robe == IF robeExists THEN acc.fs[robe_dir][name] ELSE BadFile
       IN IF ~pr.ok \/ ~pc.ok \/ body.bad \/ (robeExists /\ robe.bad)
          THEN [acc EXCEPT !.raised = TRUE]
          ELSE
            LET composited == composite_frame(body, robeExists, robe)
                result == validate_coverage(composited, pr.val, pc.val, DEFAULT_TOLERANCE)
            IN IF pr.val \in validate_rows
               THEN [acc EXCEPT !.fs = IF result.passed
                                       THEN SaveFile(acc.fs, output_dir, name, composited)
                                       ELSE acc.fs,
                                !.results = Append(acc.results, result),
                                !.processed = acc.processed + 1]
               ELSE [acc EXCEPT !.fs = SaveFile(acc.fs, output_dir, name, composited),
                                !.processed = acc.processed + 1]

\* Variant: the leak list is carried over from the frame validated before
TailorStep_carry(acc, body_dir, robe_dir, output_dir, validate_rows, name) ==
  LET parts == SplitUnderscore(RemovePng(name), <<>>)
  IN IF Len(parts) # 2 THEN acc
     ELSE
       LET pr == ParseInt(parts[1])
           pc == ParseInt(parts[2])
           body == acc.fs[body_dir][name]
           robeExists == robe_dir \in DOMAIN acc.fs /\ name \in DOMAIN acc.fs[robe_dir]
           robe == IF robeExists THEN acc.fs[robe_dir][name] ELSE BadFile
       IN IF ~pr.ok \/ ~pc.ok \/ body.bad \/ (robeExists /\ robe.bad)
          THEN [acc EXCEPT !.raised = TRUE]
          ELSE
            LET composited == composite_frame(body, robeExists, robe)
                fresh == validate_coverage(composited, pr.val, pc.val, DEFAULT_TOLERANCE)
                before == IF acc.results = <<>> THEN <<>>
                          ELSE acc.results[Len(acc.results)].leak_pixels
                result == [fresh EXCEPT !.leak_pixels = before \o fresh.leak_pixels,
                                        !.leak_count = Len(before) + fresh.leak_count,
                                        !.passed = Len(before) + fresh.leak_count
                                                     <= DEFAULT_TOLERANCE]
            IN [acc EXCEPT !.fs = SaveFile(acc.fs, output_dir, name, composited),
                           !.results = IF pr.val \in validate_rows
                                       THEN Append(acc.results, result)
                                       ELSE acc.results,
                           !.processed = acc.processed + 1]

\* One iteration of the loop of tailor_frames on frame file `name`;
\* acc = [fs, results, processed, raised]
TailorStep(acc, body_dir, robe_dir, output_dir, validate_rows, name) ==
  LET parts == SplitUnderscore(RemovePng(name), <<>>)
  IN IF Len(parts) # 2 THEN acc
     ELSE
       LET pr == ParseInt(parts[1])
           pc == ParseInt(parts[2])
           body == acc.fs[body_dir][name]
           robeExists == robe_dir \in DOMAIN acc.fs /\ name \in DOMAIN acc.fs[robe_dir]
           robe == IF robeExists THEN acc.fs[robe_dir][name] ELSE BadFile
       IN IF ~pr.ok \/ ~pc.ok \/ body.bad \/ (robeExists /\ robe.bad)
          THEN [acc EXCEPT !.raised = TRUE]
          ELSE
            LET composited == composite_frame(body, robeExists, robe)
                results == IF pr.val \in validate_rows
                           THEN Append(acc.results,
                                  validate_coverage(composited, pr.val, pc.val,
                                                    DEFAULT_TOLERANCE))
                           ELSE acc.results
            IN [acc EXCEPT !.fs = SaveFile(acc.fs, output_dir, name, composited),
                           !.results = results,
                           !.processed = acc.processed + 1]

RECURSIVE TailorLoop(_, _, _, _, _, _, _)
TailorLoop(acc, body_dir, robe_dir, output_dir, validate_rows, names, i) ==
  IF i > Len(names) \/ acc.raised THEN acc
  ELSE TailorLoop(TailorStep(acc, body_dir, robe_dir, output_dir, validate_rows, names[i]),
                  body_dir, robe_dir, output_dir, validate_rows, names, i + 1)

\* tailor_frames(body_dir, robe_dir, output_dir, validate_rows)
tailor_frames(ws, body_dir, robe_dir, output_dir, validate_rows) ==
  LET made  == [d \in (DOMAIN ws) \cup {output_dir} |-> DirOf(ws, d)]
      names == SortedNames(PngNames(DirOf(ws, body_dir)))
  IN TailorLoop([fs |-> made, results |-> <<>>, processed |-> 0, raised |-> FALSE],
                body_dir, robe_dir, output_dir, validate_rows, names, 1)

\* Variant: alpha 200 counted as covered
RobeCoverage_inclusive(robe) ==
  Len(SelectSeq(ChestPositions(robe), LAMBDA p : Pix(robe, p[1], p[2])[4] >= 200))

\* Number of chest-box pixels of a robe frame with alpha > 200
RobeCoverage(robe) ==
  Len(SelectSeq(ChestPositions(robe), LAMBDA p : Pix(robe, p[1], p[2])[4] > 200))

\* One iteration of the loop of validate_robe_only; acc = [results, raised]
RobeOnlyStep(acc, dir, validate_rows, name) ==
  LET parts == SplitUnderscore(RemovePng(name), <<>>)
  IN IF Len(parts) # 2 THEN acc
     ELSE
       LET pr == ParseInt(parts[1])
           pc == ParseInt(parts[2])
       IN IF ~pr.ok \/ ~pc.ok THEN [acc EXCEPT !.raised = TRUE]
          ELSE IF pr.val \notin validate_rows THEN acc
          ELSE IF dir[name].bad THEN [acc EXCEPT !.raised = TRUE]
          ELSE
            LET coverage == RobeCoverage(dir[name])
                passed   == coverage >= MIN_COVERAGE
            IN [acc EXCEPT !.results = Append(acc.results,
                  [row |-> pr.val, col |-> pc.val, passed |-> passed,
                   leak_count |-> IF passed THEN 0 ELSE MIN_COVERAGE - coverage,
                   leak_pixels |-> <<>>])]

RECURSIVE RobeOnlyLoop(_, _, _, _, _)
RobeOnlyLoop(acc, dir, validate_rows, names, i) ==
  IF i > Len(names) \/ acc.raised THEN acc
  ELSE RobeOnlyLoop(RobeOnlyStep(acc, dir, validate_rows, names[i]),
                    dir, validate_rows, names, i + 1)

\* validate_robe_only(robe_dir): reads the directory, writes nothing
validate_robe_only(ws, robe_dir, validate_rows) ==
  RobeOnlyLoop([results |-> <<>>, raised |-> FALSE], DirOf(ws, robe_dir),
               validate_rows, SortedNames(PngNames(DirOf(ws, robe_dir))), 1)

\* ---------------------------------------------------------------------------
\* generate_female_robe.py: the check the robe generator runs on the sheet it
\* has drawn
\* ---------------------------------------------------------------------------
CHEST_BOX_LEFT == 24

CHEST_BOX_RIGHT == 42

CHEST_BOX_TOP == 28

CHEST_BOX_BOTTOM == 48

WALK_UP_ROW == 7

WALK_LEFT_ROW == 8

WALK_DOWN_ROW == 9

WALK_RIGHT_ROW == 10

WALK_FRAME_COUNT == 9

\* range(lo, hi + 1, 2)
StrideRange(lo, hi) == { lo + 2 * i : i \in 0..((hi - lo) \div 2) }

\* uncovered_count of the frame at (row, col): sampled pixels with alpha == 0
UncoveredCount(img, row, col) ==
  Cardinality({ p \in StrideRange(CHEST_BOX_LEFT, CHEST_BOX_RIGHT)
                       \X StrideRange(CHEST_BOX_TOP, CHEST_BOX_BOTTOM) :
                  Pix(img, col * TILE_SIZE + p[1], row * TILE_SIZE + p[2])[4] = 0 })

total_samples ==
  ((CHEST_BOX_BOTTOM - CHEST_BOX_TOP) \div 2 + 1) * ((CHEST_BOX_RIGHT - CHEST_BOX_LEFT) \div 2 + 1)

\* coverage_ratio = 1 - uncovered_count / total_samples; coverage_ratio < 0.85
UnderCovered(uncovered_count) ==
  100 * (total_samples - uncovered_count) < 85 * total_samples

\* The frames the generator visits, in visiting order
WalkFrames ==
  LET rows == <<WALK_UP_ROW, WALK_LEFT_ROW, WALK_DOWN_ROW, WALK_RIGHT_ROW>>
  IN [i \in 1..(Len(rows) * WALK_FRAME_COUNT) |->
        <<rows[(i - 1) \div WALK_FRAME_COUNT + 1], (i - 1) % WALK_FRAME_COUNT>>]

\* validate_chest_coverage(img): the errors list, one entry per flagged frame
validate_chest_coverage(img) ==
  LET counted == [i \in 1..Len(WalkFrames) |->
                    [row |-> WalkFrames[i][1], col |-> WalkFrames[i][2],
                     uncovered |-> UncoveredCount(img, WalkFrames[i][1], WalkFrames[i][2])]]
  IN SelectSeq(counted, LAMBDA e : UnderCovered(e.uncovered))

\* ---------------------------------------------------------------------------
\* lpc-builder.py: character sheets composited from layers
\* ---------------------------------------------------------------------------
FRAME_WIDTH == 64

FRAME_HEIGHT == 64

SHEET_WIDTH == FRAME_WIDTH * SHEET_COLS

SHEET_HEIGHT == FRAME_HEIGHT * SHEET_ROWS

\* The categories composite_character looks at, in the order of its blocks
Categories ==
  <<"body", "eyes", "hair", "beard", "torso", "legs", "feet", "belt", "cape", "head">>

\* get_z_pos(definition): definition.get("layer_1", {}).get("zPos", 50)
get_z_pos(definition) ==
  IF "layer_1" \in DOMAIN definition /\ "zPos" \in DOMAIN definition.layer_1
  THEN definition.layer_1.zPos
  ELSE 50

RECURSIVE CollectLayers(_, _, _)
\* The ten blocks that fill layers_to_composite: a category whose sheet was
\* found is appended with its z, the body with z = 10
CollectLayers(found, defs, i) ==
  IF i > Len(Categories) THEN <<>>
  ELSE LET cat == Categories[i]
           z   == IF cat = "body" THEN 10 ELSE get_z_pos(defs[cat])
       IN (IF cat \in found THEN <<[name |-> cat, z |-> z]>> ELSE <<>>)
            \o CollectLayers(found, defs, i + 1)

\* Variant: an element is put before the elements of equal z
InsertByZ_unstable(sorted, e) ==
  LET before == SelectSeq(sorted, LAMBDA l : l.z < e.z)
      after  == SelectSeq(sorted, LAMBDA l : l.z >= e.z)
  IN before \o <<e>> \o after

\* One element put in its place: list.sort is stable
InsertByZ(sorted, e) ==
  LET before == SelectSeq(sorted, LAMBDA l : l.z <= e.z)
      after  == SelectSeq(sorted, LAMBDA l : l.z > e.z)
  IN before \o <<e>> \o after

RECURSIVE SortByZ(_)
\* layers_to_composite.sort(key=lambda x: x[2])
SortByZ(layers) ==
  IF layers = <<>> THEN <<>>
  ELSE InsertByZ(SortByZ(SubSeq(layers, 1, Len(layers) - 1)), layers[Len(layers)])

\* The layer resized to the sheet size when it has another size
FitSheet(layer_img) ==
  IF layer_img.w # SHEET_WIDTH \/ layer_img.h # SHEET_HEIGHT
  THEN ResizeNearest(layer_img, SHEET_WIDTH, SHEET_HEIGHT)
  ELSE layer_img

\* ---------------------------------------------------------------------------
\* pixel-mcp-server/server.py: JSON-RPC dispatch.  A message is
\* [id, method, params]; id and method are "absent" when the key is missing,
\* id is "null" for a JSON null.
\* ---------------------------------------------------------------------------
None == [kind |-> "none"]

\* The keys of MCP_HANDLERS
MCP_HANDLERS ==
  { "initialize", "initialized", "tools/list", "tools/call", "resources/list",
    "prompts/list", "ping" }

\* The names in mcp_tools.TOOLS that the requests use
TOOLS == { "draw_pixel" }

\* create_mcp_response(id, result)
create_mcp_response(id, result) == [kind |-> "result", id |-> id, result |-> result]

\* create_mcp_error(id, code, message)
create_mcp_error(id, code) == [kind |-> "error", id |-> id, code |-> code]

\* message.get("id"): None for a missing key and for null
MsgId(message) == IF message.id \in {"absent", "null"} THEN "None" ELSE message.id

\* handle_call_tool(params); tool is what the tool function does when called:
\* "ok", "unsuccessful" (success False) or "raises"
handle_call_tool(params, tool) ==
  IF params.name \notin TOOLS \/ tool = "raises"
  THEN [raised |-> TRUE, result |-> <<>>]
  ELSE [raised |-> FALSE,
        result |-> [content |-> params.name, isError |-> tool = "unsuccessful"]]

\* result = await handler(params): awaiting the dict a lambda handler returns
\* raises TypeError
AwaitHandler(method, params, tool) ==
  CASE method = "initialize"     -> [raised |-> FALSE, result |-> [serverInfo |-> "pixel-mcp"]]
    [] method = "tools/list"     -> [raised |-> FALSE, result |-> [tools |-> TOOLS]]
    [] method = "tools/call"     -> handle_call_tool(params, tool)
    [] method = "resources/list" -> [raised |-> FALSE, result |-> [resources |-> <<>>]]
    [] method = "prompts/list"   -> [raised |-> FALSE, result |-> [prompts |-> <<>>]]
    \* the handlers that are plain lambdas: calling one returns a dict, not an
    \* awaitable
    [] method \in { "initialized", "ping" } -> [raised |-> TRUE, result |-> <<>>]

\* process_mcp_message(message)
process_mcp_message(message, tool) ==
  IF MsgId(message) = "None" /\ message.method = "initialized" THEN None
  ELSE IF message.method \notin MCP_HANDLERS
       THEN create_mcp_error(MsgId(message), -32601)
       ELSE LET res == AwaitHandler(message.method, message.params, tool)
            IN IF res.raised THEN create_mcp_error(MsgId(message), -32603)
               ELSE create_mcp_response(MsgId(message), res.result)

\* ---------------------------------------------------------------------------
\* Command-line entry points (main of each script).  cfg is the config file,
\* [present, sheets, tailor_jobs, outputs]; exit = 1 is an uncaught exception.
\* ---------------------------------------------------------------------------
RECURSIVE SliceJobs(_, _, _, _, _)
\* for sheet_config in config["sheets"]: slice_sheet(...); counts are the
\* values slice_sheet returned so far
SliceJobs(jobs, i, sh, ws, counts) ==
  IF i > Len(jobs) THEN [fs |-> ws, exit |-> 0, counts |-> counts]
  ELSE LET res == slice_sheet(sh, ws, jobs[i].path, jobs[i].label)
       IN IF res.raised THEN [fs |-> res.fs, exit |-> 1, counts |-> counts]
          ELSE SliceJobs(jobs, i + 1, sh, res.fs, Append(counts, res.count))

\* 01_slice.py main; args = [config, sheet, label], sheet = "" when not given
slice_main(cfg, sh, ws, args) ==
  IF args.config
  THEN IF ~cfg.present THEN [fs |-> ws, exit |-> 1, counts |-> <<>>]
       ELSE SliceJobs(cfg.sheets, 1, sh, ws, <<>>)
  ELSE LET res == IF args.sheet # ""
                  THEN slice_sheet(sh, ws, args.sheet, args.label)
                  ELSE slice_sheet(sh, ws, "justice_robes.png", "robe")
       IN [fs |-> res.fs, exit |-> IF res.raised THEN 1 ELSE 0,
           counts |-> IF res.raised THEN <<>> ELSE <<res.count>>]

CompositeDir(label) == "composite_" \o label

RECURSIVE TailorJobs(_, _, _, _)
\* for job in config["tailor_jobs"]: tailor_frames(...)
TailorJobs(jobs, i, ws, results) ==
  IF i > Len(jobs) THEN [fs |-> ws, exit |-> 0, results |-> results]
  ELSE LET res == tailor_frames(ws, jobs[i].body_label, jobs[i].robe_label,
                                CompositeDir(jobs[i].output_label), WALK_ROWS)
       IN IF res.raised
          THEN [fs |-> res.fs, exit |-> 1, results |-> results \o res.results]
          ELSE TailorJobs(jobs, i + 1, res.fs, results \o res.results)

\* 02_tailor.py main; args = [config, body, robe, output, validate_only],
\* body and robe = "" when not given
tailor_main(cfg, ws, args) ==
  IF args.config
  THEN IF ~cfg.present THEN [fs |-> ws, exit |-> 1, results |-> <<>>]
       ELSE TailorJobs(cfg.tailor_jobs, 1, ws, <<>>)
  ELSE IF args.robe # "" /\ (args.validate_only \/ args.body = "")
  THEN LET res == validate_robe_only(ws, args.robe, WALK_ROWS)
       IN [fs |-> ws, exit |-> IF res.raised THEN 1 ELSE 0, results |-> res.results]
  ELSE LET res == IF args.robe # ""
                  THEN tailor_frames(ws, args.body, args.robe, args.output, WALK_ROWS)
                  ELSE tailor_frames(ws, "body", "robe", "composite", WALK_ROWS)
       IN [fs |-> res.fs, exit |-> IF res.raised THEN 1 ELSE 0, results |-> res.results]

RECURSIVE StitchJobs_break(_, _, _, _, _)
\* Variant: the loop over the outputs ends at the first job that fails
StitchJobs_break(jobs, i, ws, outs, oks) ==
  IF i > Len(jobs) THEN [outputs |-> outs, exit |-> 0, oks |-> oks]
  ELSE LET res == stitch_sheet(ws, outs, CompositeDir(jobs[i].label), jobs[i].path,
                               jobs[i].rows, jobs[i].cols)
       IN IF res.raised THEN [outputs |-> res.outputs, exit |-> 1, oks |-> oks]
          ELSE IF ~res.ok THEN [outputs |-> res.outputs, exit |-> 0, oks |-> Append(oks, res.ok)]
          ELSE StitchJobs_break(jobs, i + 1, ws, res.outputs, Append(oks, res.ok))

RECURSIVE StitchJobs(_, _, _, _, _)
\* for output_config in config["outputs"]: stitch_sheet(...); oks are the
\* values stitch_sheet returned so far
StitchJobs(jobs, i, ws, outs, oks) ==
  IF i > Len(jobs) THEN [outputs |-> outs, exit |-> 0, oks |-> oks]
  ELSE LET res == stitch_sheet(ws, outs, CompositeDir(jobs[i].label), jobs[i].path,
                               jobs[i].rows, jobs[i].cols)
       IN IF res.raised THEN [outputs |-> res.outputs, exit |-> 1, oks |-> oks]
          ELSE StitchJobs(jobs, i + 1, ws, res.outputs, Append(oks, res.ok))

\* 03_stitch.py main; args = [config, input, output, rows, cols]
stitch_main(cfg, ws, outs, args) ==
  IF args.config
  THEN IF ~cfg.present THEN [outputs |-> outs, exit |-> 1, oks |-> <<>>]
       ELSE StitchJobs(cfg.outputs, 1, ws, outs, <<>>)
  ELSE LET res == IF args.input # "" /\ args.output # ""
                  THEN stitch_sheet(ws, outs, args.input, args.output, args.rows, args.cols)
                  ELSE stitch_sheet(ws, outs, "composite", "output.png",
                                    SHEET_ROWS, SHEET_COLS)
       IN [outputs |-> res.outputs, exit |-> IF res.raised THEN 1 ELSE 0,
           oks |-> IF res.raised THEN <<>> ELSE <<res.ok>>]

\* ---------------------------------------------------------------------------
\* State
\* ---------------------------------------------------------------------------
VARIABLES
  sheets,     \* input spritesheet files: path -> image
  fs,         \* workspace: directory -> (file name -> image)
  outputs,    \* stitched sheets written so far: path -> image
  last,       \* the last command and what it returned; in a pipeline run,
              \* what the phases run so far returned
  prov,       \* per directory: the sheet it was sliced from into an empty
              \* directory and not written since, or ""
  steps,      \* number of commands run
  cfg,        \* the job config file
  flags,      \* run_pipeline.py options
  pc,         \* position of run_pipeline.py main
  started,    \* phases run_pipeline.py has started, in order
  status,     \* phase -> exit status of its process
  pin,        \* input of a pure function
  pout,       \* its result
  sessions,   \* MCP server: session id -> [queue, connected]
  closed,     \* MCP server: ids of the sessions that were deleted
  posts,      \* MCP server: the POST /message requests, each with its position
  puts,       \* MCP server: every queue.put made so far, in order
  batch,      \* batch generator: the locals of process_tiles_ai
  stream      \* batch generator: the far end of its SSE stream

fvars == <<sheets, fs, outputs>>

lvars == <<last, prov, steps>>

ovars == <<cfg, flags, pc, started, status>>

uvars == <<pin, pout>>

nvars == <<sessions, closed, posts, puts>>

bvars == <<batch, stream>>

vars ==
  <<sheets, fs, outputs, last, prov, steps, cfg, flags, pc, started, status, pin, pout,
    sessions, closed, posts, puts, batch, stream>>

\* ---------------------------------------------------------------------------
\* Inputs: cell patterns, sheets and workspaces
\* ---------------------------------------------------------------------------
SkinColor == <<210, 170, 150, 255>>

RobeColor == <<20, 20, 30, 255>>

\* Pixel (x, y) of a cell drawn in pattern pat; seed tells cells apart
PatternPixel(pat, seed, x, y) ==
  CASE pat = "clear"  -> Clear
    [] pat = "ghost"  -> <<210, 170, 150, 0>>
    [] pat = "skin"   -> SkinColor
    [] pat = "grad"   -> <<4 * x, 4 * y, (x + y + 16 * seed) % 256, 255>>
    [] pat = "fade"   -> <<4 * x, 200, (16 * seed) % 256, (5 * (x + y)) % 256>>
    [] pat = "corner" -> IF x = TILE_SIZE - 1 /\ y = TILE_SIZE - 1 THEN RobeColor ELSE Clear
    [] pat = "robe"   -> IF x >= 16 /\ x < 48 /\ y >= 20 /\ y < 56 THEN RobeColor ELSE Clear
    [] pat = "veil"   -> IF x < 32 THEN <<20, 20, 30, 128>> ELSE <<200, 0, 0, 255>>
    [] pat = "leak"   -> IF y = CHEST_BOX.y1 /\ x >= CHEST_BOX.x1 /\ x < CHEST_BOX.x1 + seed
                         THEN SkinColor ELSE RobeColor
    [] pat = "rim"    -> IF /\ x >= CHEST_BOX.x1 /\ x < CHEST_BOX.x2
                            /\ y >= CHEST_BOX.y1 /\ y < CHEST_BOX.y2
                         THEN RobeColor ELSE SkinColor
    [] pat = "thin"   -> IF x >= 30 /\ x < 36 THEN <<20, 20, 30, 201>> ELSE <<20, 20, 30, 200>>
    [] pat = "band"   -> IF /\ x >= CHEST_BOX.x1 /\ x < CHEST_BOX.x2
                            /\ y >= CHEST_BOX.y1 /\ y < CHEST_BOX.y2
                            /\ (y - CHEST_BOX.y1) * (CHEST_BOX.x2 - CHEST_BOX.x1)
                                 + (x - CHEST_BOX.x1) < seed
                         THEN <<20, 20, 30, 201>> ELSE <<20, 20, 30, 200>>
    [] pat = "gap"    -> IF x % 2 = 1 \/ y % 2 = 1 THEN Clear
                         ELSE IF /\ x >= 24 /\ x <= 42 /\ y >= 28 /\ y <= 48
                                 /\ ((y - 28) \div 2) * 10 + ((x - 24) \div 2) < seed
                              THEN Clear ELSE <<20, 20, 30, 100>>

\* A frame file of w x h pixels in one pattern
PatternFrame(pat, seed, w, h) ==
  [bad |-> FALSE, w |-> w, h |-> h,
   px |-> [y \in 1..h |-> [x \in 1..w |-> PatternPixel(pat, seed, x - 1, y - 1)]]]

\* A rows x cols sheet: every cell in pattern base, except cell number k
\* (row-major) in pattern special
PatternSheet(rows, cols, base, special, k) ==
  [bad |-> FALSE, w |-> cols * TILE_SIZE, h |-> rows * TILE_SIZE,
   px |-> [y \in 1..(rows * TILE_SIZE) |-> [x \in 1..(cols * TILE_SIZE) |->
            LET cell == ((y - 1) \div TILE_SIZE) * cols + ((x - 1) \div TILE_SIZE)
            IN PatternPixel(IF cell = k THEN special ELSE base, cell,
                            (x - 1) % TILE_SIZE, (y - 1) % TILE_SIZE)]]]

\* A full robe sheet as the generator draws it, with the frame at (row, col)
\* replaced by pattern special
RobeSheet(special, seed, row, col) ==
  [bad |-> FALSE, w |-> SHEET_COLS * TILE_SIZE, h |-> SHEET_ROWS * TILE_SIZE,
   px |-> [y \in 1..(SHEET_ROWS * TILE_SIZE) |-> [x \in 1..(SHEET_COLS * TILE_SIZE) |->
            IF (y - 1) \div TILE_SIZE = row /\ (x - 1) \div TILE_SIZE = col
            THEN PatternPixel(special, seed, (x - 1) % TILE_SIZE, (y - 1) % TILE_SIZE)
            ELSE PatternPixel("robe", 0, (x - 1) % TILE_SIZE, (y - 1) % TILE_SIZE)]]]

Layouts ==
  { <<"grad", "fade">>, <<"clear", "skin">>, <<"grad", "ghost">>,
    <<"clear", "corner">>, <<"skin", "clear">> }

\* Grid shapes (rows, cols) of the sheets sliced and stitched
Shapes == { <<1, MaxCols>>, <<MaxRows, 1>> }

\* A sheet whose width and height are not multiples of TILE_SIZE
OddSheet == Crop(PatternSheet(2, 2, "grad", "fade", 1), 0, 0, TILE_SIZE + 36, TILE_SIZE + 6)

\* A sheet of the standard width and one row
WideSheet == PatternSheet(1, SHEET_COLS, "clear", "corner", SHEET_COLS - 1)

BodySheets ==
  { PatternSheet(d[1], d[2], l[1], l[2], d[1] * d[2] - 1) : d \in Shapes, l \in Layouts }
    \cup { OddSheet, WideSheet }

RobeSheets == { PatternSheet(1, MaxCols, "robe", "veil", 0) }

NoFiles == <<>>

SheetSets ==
  { [p \in {"body.png", "robe.png"} |-> IF p = "body.png" THEN b ELSE r] :
       b \in BodySheets, r \in RobeSheets }

Dirs == {"body", "robe", "composite"}

\* ---------------------------------------------------------------------------
\* Commands run by hand on the workspace
\* ---------------------------------------------------------------------------
IdleOrch ==
  /\ cfg = [present |-> FALSE, sheets |-> <<>>, tailor_jobs |-> <<>>, outputs |-> <<>>]
  /\ flags = [skip_slice |-> FALSE, validate_only |-> FALSE]
  /\ pc = "idle"
  /\ started = <<>>
  /\ status = <<>>

IdlePure == pin = [kind |-> "none"] /\ pout = [kind |-> "none"]

IdleNet ==
  /\ sessions = <<>>
  /\ closed = {}
  /\ posts = <<>>
  /\ puts = <<>>

IdleBatch == batch = [pc |-> "idle"] /\ stream = [pc |-> "idle"]

IdleLib ==
  /\ last = [cmd |-> "none"]
  /\ prov = [d \in Dirs |-> ""]
  /\ steps = 0

Init ==
  /\ sheets \in SheetSets
  /\ fs = NoFiles
  /\ outputs = NoFiles
  /\ IdleLib
  /\ IdleNet
  /\ IdleBatch
  /\ IdleOrch
  /\ IdlePure

\* python 01_slice.py --sheet path --label label
SliceSheet(path, label) ==
  /\ steps < MaxSteps
  /\ LET res == slice_sheet(sheets, fs, path, label)
     IN /\ fs' = res.fs
        /\ last' = [cmd |-> "slice", sheet |-> path, label |-> label,
                    count |-> res.count, raised |-> res.raised, written |-> res.written,
                    warned |-> res.warned, rows |-> res.rows, cols |-> res.cols]
        /\ prov' = IF res.raised \/ path \notin DOMAIN sheets THEN prov
                   ELSE [prov EXCEPT ![label] = IF DirOf(fs, label) = NoFiles THEN path ELSE ""]
  /\ steps' = steps + 1
  /\ UNCHANGED <<nvars, bvars, sheets, outputs, ovars, uvars>>

\* python 03_stitch.py --input input --output output --rows rows --cols cols
StitchSheet(input, output, rows, cols) ==
  /\ steps < MaxSteps
  /\ LET res == stitch_sheet(fs, outputs, input, output, rows, cols)
     IN /\ outputs' = res.outputs
        /\ last' = [cmd |-> "stitch", input |-> input, output |-> output,
                    rows |-> rows, cols |-> cols, ok |-> res.ok, raised |-> res.raised,
                    placed |-> res.placed, missing |-> res.missing]
  /\ steps' = steps + 1
  /\ UNCHANGED <<nvars, bvars, sheets, fs, prov, ovars, uvars>>

\* Slicing and stitching by hand: both sheets can be sliced under the label
\* "body", so a directory may hold frames of an earlier sheet.
Next ==
  \/ \E path \in {"body.png", "robe.png"} : SliceSheet(path, "body")
  \/ \E d \in Shapes : StitchSheet("body", "out.png", d[1], d[2])

Spec == Init /\ [][Next]_vars

\* ---------------------------------------------------------------------------
\* Tailoring by hand on a workspace of frame files
\* ---------------------------------------------------------------------------
Name(str) == str \o Png

\* A directory: the files named in names, file i drawn in pattern pats[i]
\* with seed seeds[i]
FrameDir(names, pats, seeds) ==
  [n \in {names[i] : i \in 1..Len(names)} |->
     LET i == CHOOSE j \in 1..Len(names) : names[j] = n
     IN PatternFrame(pats[i], seeds[i], TILE_SIZE, TILE_SIZE)]

\* Frame files that are not TILE_SIZE square (hand-edited or exported by
\* another tool): one too large, two too small
OddSizeDir ==
  (FrameFilename(0, 0) :> PatternFrame("grad", 0, TILE_SIZE + 6, TILE_SIZE + 6)) @@
  (FrameFilename(0, 1) :> PatternFrame("skin", 0, 26, 30)) @@
  (FrameFilename(7, 0) :> PatternFrame("skin", 0, 26, 30))

\* Frame files whose row is written with a leading zero and a file with a
\* three-part name, beside one the Slicer named
PaddedDir ==
  FrameDir(<<FrameFilename(0, 0), Name(<<"0", "0", "_", "1">>), Name(<<"0", "7", "_", "0">>),
             Name(<<"7", "_", "0", "_", "1">>)>>,
           <<"grad", "grad", "skin", "skin">>, <<0, 1, 0, 0>>)

BodyDirs ==
  { FrameDir(<<FrameFilename(0, 0), FrameFilename(7, 0), FrameFilename(10, 1)>>,
             <<"grad", "skin", "leak">>, <<0, 0, DEFAULT_TOLERANCE>>),
    FrameDir(<<FrameFilename(0, 1), FrameFilename(8, 0), FrameFilename(9, 2)>>,
             <<"fade", "leak", "rim">>, <<1, DEFAULT_TOLERANCE + 1, 0>>),
    FrameDir(<<FrameFilename(1, 0), FrameFilename(7, 0)>>,
             <<"fade", "fade">>, <<2, 3>>),
    FrameDir(<<FrameFilename(0, 0), FrameFilename(6, 3), FrameFilename(11, 0)>>,
             <<"skin", "skin", "ghost">>, <<0, 0, 0>>),
    OddSizeDir,
    PaddedDir }

RobeDirs ==
  { FrameDir(<<FrameFilename(0, 0), FrameFilename(7, 0)>>, <<"veil", "robe">>, <<0, 0>>),
    FrameDir(<<FrameFilename(0, 1), FrameFilename(8, 0), FrameFilename(10, 1)>>,
             <<"fade", "thin", "corner">>, <<5, 0, 0>>),
    FrameDir(<<FrameFilename(7, 0), FrameFilename(9, 9)>>, <<"thin", "robe">>, <<0, 0>>),
    FrameDir(<<FrameFilename(1, 0), FrameFilename(9, 2)>>, <<"clear", "veil">>, <<0, 0>>) @@
      (FrameFilename(0, 0) :> PatternFrame("robe", 0, 32, 32)) }

Workspaces ==
  { [d \in {"body"} |-> b] : b \in BodyDirs } \cup
  { [d \in {"body", "robe"} |-> IF d = "body" THEN b ELSE r] : b \in BodyDirs, r \in RobeDirs }

InitTailor ==
  /\ sheets = NoFiles
  /\ fs \in Workspaces
  /\ outputs = NoFiles
  /\ IdleLib
  /\ IdleNet
  /\ IdleBatch
  /\ IdleOrch
  /\ IdlePure

\* python 02_tailor.py --body body --robe robe --output out
TailorFrames(body, robe, out) ==
  /\ steps < MaxSteps
  /\ LET res == tailor_frames(fs, body, robe, out, WALK_ROWS)
     IN /\ fs' = res.fs
        /\ last' = [cmd |-> "tailor", body |-> body, robe |-> robe, out |-> out,
                    results |-> res.results, processed |-> res.processed,
                    raised |-> res.raised]
        /\ prov' = [prov EXCEPT ![out] = ""]
  /\ steps' = steps + 1
  /\ UNCHANGED <<nvars, bvars, sheets, outputs, ovars, uvars>>

\* python 02_tailor.py --robe robe --validate-only
ValidateRobeOnly(robe) ==
  /\ steps < MaxSteps
  /\ LET res == validate_robe_only(fs, robe, WALK_ROWS)
     IN last' = [cmd |-> "validate", robe |-> robe, results |-> res.results,
                 raised |-> res.raised]
  /\ steps' = steps + 1
  /\ UNCHANGED <<nvars, bvars, fvars, prov, ovars, uvars>>

NextTailor ==
  \/ TailorFrames("body", "robe", "composite")
  \/ ValidateRobeOnly("robe")
  \/ \E d \in Shapes : StitchSheet("composite", "out.png", d[1], d[2])

SpecTailor == InitTailor /\ [][NextTailor]_vars

\* ---------------------------------------------------------------------------
\* The classifier and the leak validator applied to chosen inputs
\* ---------------------------------------------------------------------------
RedSamples == {99, 100, 180, 181, 199, 200, 230, 231, 255}

GreenSamples == {69, 70, 129, 130, 140, 141, 160, 180, 181, 220, 221}

BlueSamples == {49, 50, 100, 120, 121, 130, 160, 161, 190, 191}

AlphaSamples == {0, 199, 200, 255}

PixelInputs ==
  { [kind |-> "pixel", pixel |-> <<r, g, b, a>>] :
      r \in RedSamples, g \in GreenSamples, b \in BlueSamples, a \in AlphaSamples }

SampleFrames ==
  { PatternFrame("leak", k, TILE_SIZE, TILE_SIZE) : k \in 0..(MaxTolerance + 1) } \cup
  { PatternFrame("skin", 0, TILE_SIZE, TILE_SIZE),
    PatternFrame("rim", 0, TILE_SIZE, TILE_SIZE),
    PatternFrame("ghost", 0, TILE_SIZE, TILE_SIZE),
    PatternFrame("grad", 0, TILE_SIZE, TILE_SIZE),
    PatternFrame("skin", 0, 26, 30),
    PatternFrame("skin", 0, 20, 20) }

FrameInputs ==
  { [kind |-> "frame", frame |-> f, tolerance |-> t] :
      f \in SampleFrames, t \in 0..MaxTolerance }

\* Robe frames checked on their own: fully covered, faint, and with exactly
\* seed pixels above the alpha threshold
LayerFrames ==
  { PatternFrame("robe", 0, TILE_SIZE, TILE_SIZE),
    PatternFrame("veil", 0, TILE_SIZE, TILE_SIZE),
    PatternFrame("thin", 0, TILE_SIZE, TILE_SIZE),
    PatternFrame("clear", 0, TILE_SIZE, TILE_SIZE),
    PatternFrame("gap", 16, TILE_SIZE, TILE_SIZE) } \cup
  { PatternFrame("band", k, TILE_SIZE, TILE_SIZE) :
      k \in { MIN_COVERAGE - 1, MIN_COVERAGE, 305, 306 } }

LayerInputs ==
  { [kind |-> "layer", frame |-> f, row |-> r] : f \in LayerFrames, r \in {0, 7, 10} }

\* Generated sheets, named by the frame that differs from the drawn robe
SheetInputs ==
  { [kind |-> "sheet", special |-> d[1], seed |-> d[2], row |-> d[3], col |-> d[4]] :
      d \in { <<"gap", 16, 10, 8>>, <<"gap", 17, 10, 8>>, <<"gap", 17, 7, 0>>,
               <<"gap", 110, 8, 3>>, <<"veil", 0, 7, 0>>, <<"thin", 0, 9, 4>>,
               <<"clear", 0, 8, 3>>, <<"ghost", 0, 9, 0>>, <<"clear", 0, 7, 9>>,
               <<"clear", 0, 6, 0>>, <<"clear", 0, 11, 2>>, <<"robe", 0, 7, 0>> } }

\* JSON-RPC messages: every registered method, an unregistered one and none;
\* with an id, with a null id and without
Messages ==
  { [id |-> i, method |-> m, params |-> [name |-> n]] :
      i \in {"absent", "null", "0", "1"},
      m \in MCP_HANDLERS \cup {"sprites/list", "absent"},
      n \in {"draw_pixel", "nope"} }

MessageInputs ==
  { [kind |-> "message", message |-> m, tool |-> t] :
      m \in Messages, t \in {"ok", "unsuccessful", "raises"} }

InitPure ==
  /\ sheets = NoFiles
  /\ fs = NoFiles
  /\ outputs = NoFiles
  /\ IdleLib
  /\ IdleNet
  /\ IdleBatch
  /\ IdleOrch
  /\ pin \in PixelInputs \cup FrameInputs \cup LayerInputs \cup SheetInputs \cup MessageInputs
  /\ pout = [kind |-> "none"]

ApplySkin ==
  /\ pin.kind = "pixel"
  /\ pout.kind = "none"
  /\ pout' = [kind |-> "skin", value |-> is_skin_pixel(pin.pixel)]
  /\ UNCHANGED <<nvars, bvars, fvars, lvars, ovars, pin>>

ApplyValidate ==
  /\ pin.kind = "frame"
  /\ pout.kind = "none"
  /\ pout' = [kind |-> "validate",
              value |-> validate_coverage(pin.frame, 7, 0, pin.tolerance)]
  /\ UNCHANGED <<nvars, bvars, fvars, lvars, ovars, pin>>

\* 02_tailor.py --validate-robe on a directory holding the one frame
ApplyRobeOnly ==
  /\ pin.kind = "layer"
  /\ pout.kind = "none"
  /\ LET ws  == [d \in {"robe"} |-> (FrameFilename(pin.row, 0) :> pin.frame)]
         res == validate_robe_only(ws, "robe", WALK_ROWS)
     IN pout' = [kind |-> "robe_only", results |-> res.results, raised |-> res.raised]
  /\ UNCHANGED <<nvars, bvars, fvars, lvars, ovars, pin>>

\* The generator checking the sheet it has drawn
ApplyChestCoverage ==
  /\ pin.kind = "sheet"
  /\ pout.kind = "none"
  /\ pout' = [kind |-> "chest",
              errors |-> validate_chest_coverage(
                           RobeSheet(pin.special, pin.seed, pin.row, pin.col))]
  /\ UNCHANGED <<nvars, bvars, fvars, lvars, ovars, pin>>

\* One message through process_mcp_message
ApplyDispatch ==
  /\ pin.kind = "message"
  /\ pout.kind = "none"
  /\ pout' = [kind |-> "dispatch", response |-> process_mcp_message(pin.message, pin.tool)]
  /\ UNCHANGED <<nvars, bvars, fvars, lvars, ovars, pin>>

NextPure ==
  ApplySkin \/ ApplyValidate \/ ApplyRobeOnly \/ ApplyChestCoverage \/ ApplyDispatch

SpecPure == InitPure /\ [][NextPure]_vars

\* ---------------------------------------------------------------------------
\* run_pipeline.py: each phase is a child process that main waits for
\* ---------------------------------------------------------------------------
JobSheets == << [path |-> "body.png", label |-> "body"],
                [path |-> "robe.png", label |-> "robe"] >>

JobTailor == << [body_label |-> "body", robe_label |-> "robe", output_label |-> "out"] >>

\* Three output jobs: one whose composite directory no tailor job makes, the
\* sheet of row 0, and a one-column sheet tall enough to hold walk row 7
JobOutputs ==
  << [label |-> "gone", path |-> "gone.png", rows |-> 1, cols |-> 1],
     [label |-> "out", path |-> "out.png", rows |-> 1, cols |-> MaxCols],
     [label |-> "out", path |-> "walk.png", rows |-> 8, cols |-> 1] >>

\* The config file: present as the phase scripts see it (they run in the
\* script directory), in_cwd as main itself sees it when it reopens the path
Configs ==
  { [present |-> p, in_cwd |-> q, sheets |-> JobSheets, tailor_jobs |-> JobTailor,
     outputs |-> JobOutputs] : p \in BOOLEAN, q \in BOOLEAN }

OrchSheets ==
  { [p \in {"robe.png"} |-> PatternSheet(1, MaxCols, "robe", "veil", 0)],
    [p \in {"body.png", "robe.png"} |->
       IF p = "body.png" THEN PatternSheet(1, MaxCols, "grad", "fade", MaxCols - 1)
       ELSE PatternSheet(1, MaxCols, "robe", "veil", 0)],
    [p \in {"body.png", "robe.png"} |->
       IF p = "body.png" THEN BadFile ELSE PatternSheet(1, MaxCols, "robe", "veil", 0)] }

OrchWorkspaces ==
  { NoFiles,
    [d \in {"body", "robe"} |->
       IF d = "body"
       THEN FrameDir(<<FrameFilename(0, 0), FrameFilename(7, 0), FrameFilename(8, 0)>>,
                     <<"fade", "skin", "skin">>, <<2, 0, 0>>)
       ELSE FrameDir(<<FrameFilename(8, 0)>>, <<"thin">>, <<0>>)],
    [d \in {"body"} |->
       FrameDir(<<Name(<<"1", "_", "x">>), FrameFilename(7, 0)>>, <<"grad", "skin">>, <<0, 0>>)],
    [d \in {"composite_out"} |-> [n \in {FrameFilename(0, 0)} |-> BadFile]] }

InitOrch ==
  /\ sheets \in OrchSheets
  /\ fs \in OrchWorkspaces
  /\ outputs = NoFiles
  /\ IdleLib
  /\ IdleNet
  /\ IdleBatch
  /\ cfg \in Configs
  /\ flags \in [skip_slice : BOOLEAN, validate_only : BOOLEAN]
  /\ pc = "start"
  /\ started = <<>>
  /\ status = <<>>
  /\ IdlePure

ConfigArgs == [config |-> TRUE, sheet |-> "", label |-> "frames"]

TailorArgs ==
  [config |-> TRUE, body |-> "", robe |-> "", output |-> "composite",
   validate_only |-> flags.validate_only]

StitchArgs ==
  [config |-> TRUE, input |-> "", output |-> "", rows |-> SHEET_ROWS, cols |-> SHEET_COLS]

\* run_step("01_slice.py", config_args): the child is started
StartSlice ==
  /\ pc = "start"
  /\ ~flags.skip_slice /\ ~flags.validate_only
  /\ started' = Append(started, "SLICING")
  /\ pc' = "slicing"
  /\ UNCHANGED <<nvars, bvars, fvars, lvars, cfg, flags, status, uvars>>

\* Variant: after a failed slice main returns 0
ExitSlice_silent ==
  /\ pc = "slicing"
  /\ LET res == slice_main(cfg, sheets, fs, ConfigArgs)
     IN /\ fs' = res.fs
        /\ status' = ("SLICING" :> res.exit) @@ status
        /\ last' = [cmd |-> "pipeline", counts |-> res.counts] @@ last
        /\ pc' = IF res.exit = 0 THEN "tailor" ELSE "done"
  /\ UNCHANGED <<nvars, bvars, sheets, outputs, prov, steps, cfg, flags, started, uvars>>

\* Variant: main goes on to the tailor phase whatever the slice status
ExitSlice_ungated ==
  /\ pc = "slicing"
  /\ LET res == slice_main(cfg, sheets, fs, ConfigArgs)
     IN /\ fs' = res.fs
        /\ status' = ("SLICING" :> res.exit) @@ status
        /\ last' = [cmd |-> "pipeline", counts |-> res.counts] @@ last
        /\ pc' = "tailor"
  /\ UNCHANGED <<nvars, bvars, sheets, outputs, prov, steps, cfg, flags, started, uvars>>

\* the slice child runs and exits; a non-zero status makes main return 1
ExitSlice ==
  /\ pc = "slicing"
  /\ LET res == slice_main(cfg, sheets, fs, ConfigArgs)
     IN /\ fs' = res.fs
        /\ status' = ("SLICING" :> res.exit) @@ status
        /\ last' = [cmd |-> "pipeline", counts |-> res.counts] @@ last
        /\ pc' = IF res.exit = 0 THEN "tailor" ELSE "failed"
  /\ UNCHANGED <<nvars, bvars, sheets, outputs, prov, steps, cfg, flags, started, uvars>>

\* run_step("02_tailor.py", tailor_args): the child is started
StartTailor ==
  /\ \/ pc = "tailor"
     \/ pc = "start" /\ (flags.skip_slice \/ flags.validate_only)
  /\ started' = Append(started, "TAILORING")
  /\ pc' = "tailoring"
  /\ UNCHANGED <<nvars, bvars, fvars, lvars, cfg, flags, status, uvars>>

\* the tailor child runs and exits; a non-zero status only prints a warning
ExitTailor ==
  /\ pc = "tailoring"
  /\ LET res == tailor_main(cfg, fs, TailorArgs)
     IN /\ fs' = res.fs
        /\ status' = ("TAILORING" :> res.exit) @@ status
        /\ last' = [cmd |-> "pipeline", results |-> res.results] @@ last
  /\ pc' = IF flags.validate_only THEN "report" ELSE "stitch"
  /\ UNCHANGED <<nvars, bvars, sheets, outputs, prov, steps, cfg, flags, started, uvars>>

\* run_step("03_stitch.py", config_args): the child is started
StartStitch ==
  /\ pc = "stitch"
  /\ started' = Append(started, "STITCHING")
  /\ pc' = "stitching"
  /\ UNCHANGED <<nvars, bvars, fvars, lvars, cfg, flags, status, uvars>>

\* Variant: main goes on to report whatever the stitch status
ExitStitch_ungated ==
  /\ pc = "stitching"
  /\ LET res == stitch_main(cfg, fs, outputs, StitchArgs)
     IN /\ outputs' = res.outputs
        /\ status' = ("STITCHING" :> res.exit) @@ status
        /\ last' = [cmd |-> "pipeline", oks |-> res.oks] @@ last
        /\ pc' = "report"
  /\ UNCHANGED <<nvars, bvars, sheets, fs, prov, steps, cfg, flags, started, uvars>>

\* the stitch child runs and exits; a non-zero status makes main return 1
ExitStitch ==
  /\ pc = "stitching"
  /\ LET res == stitch_main(cfg, fs, outputs, StitchArgs)
     IN /\ outputs' = res.outputs
        /\ status' = ("STITCHING" :> res.exit) @@ status
        /\ last' = [cmd |-> "pipeline", oks |-> res.oks] @@ last
        /\ pc' = IF res.exit = 0 THEN "report" ELSE "failed"
  /\ UNCHANGED <<nvars, bvars, sheets, fs, prov, steps, cfg, flags, started, uvars>>

\* "Pipeline complete!" is printed, then the config is reopened to list the
\* outputs: main returns 0, or dies on the open
Report ==
  /\ pc = "report"
  /\ started' = Append(started, "COMPLETE")
  /\ pc' = IF cfg.in_cwd THEN "done" ELSE "failed"
  /\ UNCHANGED <<nvars, bvars, fvars, lvars, cfg, flags, status, uvars>>

NextOrch ==
  \/ StartSlice
  \/ ExitSlice
  \/ StartTailor
  \/ ExitTailor
  \/ StartStitch
  \/ ExitStitch
  \/ Report

SpecOrch == InitOrch /\ [][NextOrch]_vars

\* ---------------------------------------------------------------------------
\* lpc-builder.py: one call of composite_character
\* ---------------------------------------------------------------------------
CatIndex(cat) == CHOOSE i \in 1..Len(Categories) : Categories[i] = cat

\* Pixel (x, y) of the sheet of a category: opaque, in a colour of its own, in
\* two frame columns of three
LayerPixel(cat, x, y) ==
  IF (x \div FRAME_WIDTH) % 3 # CatIndex(cat) % 3
  THEN <<20 * CatIndex(cat), 200, (x \div FRAME_WIDTH) + (y \div FRAME_HEIGHT), 255>>
  ELSE Clear

\* The sheet file of a category; the cape sheet is stored at half size
LayerFile(cat) ==
  IF cat = "cape"
  THEN [bad |-> FALSE, w |-> SHEET_WIDTH \div 2, h |-> SHEET_HEIGHT \div 2,
        px |-> [y \in 1..(SHEET_HEIGHT \div 2) |-> [x \in 1..(SHEET_WIDTH \div 2) |->
                 LayerPixel(cat, 2 * (x - 1), 2 * (y - 1))]]]
  ELSE [bad |-> FALSE, w |-> SHEET_WIDTH, h |-> SHEET_HEIGHT,
        px |-> [y \in 1..SHEET_HEIGHT |-> [x \in 1..SHEET_WIDTH |->
                 LayerPixel(cat, x - 1, y - 1)]]]

RECURSIVE ResultOf(_)
\* result after the layers in drawn were composited, in that order, onto the
\* transparent sheet
ResultOf(drawn) ==
  IF drawn = <<>> THEN NewImage(SHEET_WIDTH, SHEET_HEIGHT, Clear)
  ELSE AlphaComposite(ResultOf(SubSeq(drawn, 1, Len(drawn) - 1)),
                      FitSheet(LayerFile(drawn[Len(drawn)])))

\* Sheet definitions: with a zPos, without one, without a layer_1
DefChoices ==
  { [layer_1 |-> [zPos |-> 5, male |-> "m"]],
    [layer_1 |-> [zPos |-> 10, male |-> "m"]],
    [layer_1 |-> [male |-> "m"]],
    [name |-> "n"] }

\* A character request: the categories whose sheet is found, their
\* definitions, and the sheets that open
CharacterInputs ==
  UNION { { [kind |-> "character", found |-> f, defs |-> d, loads |-> l] :
              d \in [f \ {"body"} -> DefChoices], l \in SUBSET f } :
          f \in { g \in SUBSET { Categories[i] : i \in 1..Len(Categories) } : Cardinality(g) <= MaxLayers } }

InitChar ==
  /\ sheets = NoFiles
  /\ fs = NoFiles
  /\ outputs = NoFiles
  /\ IdleLib
  /\ IdleNet
  /\ IdleBatch
  /\ IdleOrch
  /\ pin \in CharacterInputs
  /\ pout = [kind |-> "none"]

\* The ten blocks up to the sort
Collect ==
  /\ pin.kind = "character"
  /\ pout.kind = "none"
  /\ pout' = [kind |-> "character", pc |-> "sort",
              layers |-> CollectLayers(pin.found, pin.defs, 1), i |-> 1, drawn |-> <<>>]
  /\ UNCHANGED <<nvars, bvars, fvars, lvars, ovars, pin>>

SortLayers ==
  /\ pout.kind = "character"
  /\ pout.pc = "sort"
  /\ pout' = [pout EXCEPT !.layers = SortByZ(pout.layers), !.pc = "composite"]
  /\ UNCHANGED <<nvars, bvars, fvars, lvars, ovars, pin>>

\* One pass of the loop: the layer is opened and composited, or the except
\* clause reports it and the loop goes on
CompositeLayer ==
  /\ pout.kind = "character"
  /\ pout.pc = "composite"
  /\ pout.i <= Len(pout.layers)
  /\ pout' = [pout EXCEPT
                !.drawn = IF pout.layers[pout.i].name \in pin.loads
                          THEN Append(pout.drawn, pout.layers[pout.i].name)
                          ELSE pout.drawn,
                !.i = pout.i + 1]
  /\ UNCHANGED <<nvars, bvars, fvars, lvars, ovars, pin>>

ReturnResult ==
  /\ pout.kind = "character"
  /\ pout.pc = "composite"
  /\ pout.i > Len(pout.layers)
  /\ pout' = [pout EXCEPT !.pc = "done"]
  /\ UNCHANGED <<nvars, bvars, fvars, lvars, ovars, pin>>

NextChar == Collect \/ SortLayers \/ CompositeLayer \/ ReturnResult

SpecChar == InitChar /\ [][NextChar]_vars

\* ---------------------------------------------------------------------------
\* pixel-mcp-server/server.py: SSE sessions and POST /message handlers running
\* on one event loop.  A handler can be suspended at its awaits: reading the
\* request body, and inside the tool a tools/call runs.
\* ---------------------------------------------------------------------------
\* The request bodies clients post
PostedMessages ==
  { [id |-> "1", method |-> "tools/list", params |-> [name |-> "draw_pixel"]],
    [id |-> "2", method |-> "tools/call", params |-> [name |-> "draw_pixel"]],
    [id |-> "1", method |-> "sprites/list", params |-> [name |-> "draw_pixel"]],
    [id |-> "absent", method |-> "initialized", params |-> [name |-> "draw_pixel"]] }

InitMcp ==
  /\ sheets = NoFiles
  /\ fs = NoFiles
  /\ outputs = NoFiles
  /\ IdleLib
  /\ IdleOrch
  /\ IdlePure
  /\ IdleBatch
  /\ sessions = <<>>
  /\ closed = {}
  /\ posts = <<>>
  /\ puts = <<>>

\* GET /sse: a session with a fresh id and an empty queue
SseConnect ==
  /\ Cardinality(DOMAIN sessions \cup closed) < MaxSessions
  /\ LET session_id == Cardinality(DOMAIN sessions \cup closed) + 1
     IN sessions' = (session_id :> [queue |-> <<>>, connected |-> TRUE]) @@ sessions
  /\ UNCHANGED <<fvars, lvars, ovars, uvars, bvars, closed, posts, puts>>

\* event_generator takes the next message off its queue and yields it
SseYield(session_id) ==
  /\ session_id \in DOMAIN sessions
  /\ sessions[session_id].queue # <<>>
  /\ sessions' = [sessions EXCEPT ![session_id].queue = Tail(@)]
  /\ UNCHANGED <<fvars, lvars, ovars, uvars, bvars, closed, posts, puts>>

\* The client goes away: the finally clause of event_generator deletes the
\* session
SseClose(session_id) ==
  /\ session_id \in DOMAIN sessions
  /\ sessions' = [s \in DOMAIN sessions \ {session_id} |-> sessions[s]]
  /\ closed' = closed \cup {session_id}
  /\ UNCHANGED <<fvars, lvars, ovars, uvars, bvars, posts, puts>>

\* POST /message?session_id=...: 404 for a session that is not in sessions,
\* else the handler starts reading the body
PostArrive(session_id, body) ==
  /\ Len(posts) < MaxPosts
  /\ posts' = Append(posts,
       IF session_id \notin DOMAIN sessions
       THEN [session_id |-> session_id, body |-> body, pc |-> "done",
             response |-> None, http |-> 404]
       ELSE [session_id |-> session_id, body |-> body, pc |-> "read",
             response |-> None, http |-> 0])
  /\ UNCHANGED <<fvars, lvars, ovars, uvars, bvars, sessions, closed, puts>>

\* response = await process_mcp_message(body)
PostProcess(i, tool) ==
  /\ i \in 1..Len(posts)
  /\ posts[i].pc = "read"
  /\ posts' = [posts EXCEPT ![i].response = process_mcp_message(posts[i].body, tool),
                            ![i].pc = "put"]
  /\ UNCHANGED <<fvars, lvars, ovars, uvars, bvars, sessions, closed, puts>>

\* Variant: the response is put on the queue of the first open session
PostPut_first(i) ==
  /\ i \in 1..Len(posts)
  /\ posts[i].pc = "put"
  /\ IF posts[i].response = None
     THEN /\ posts' = [posts EXCEPT ![i].pc = "done", ![i].http = 200]
          /\ UNCHANGED <<sessions, puts>>
     ELSE IF posts[i].session_id \in DOMAIN sessions
          THEN LET first == CHOOSE s \in DOMAIN sessions : \A o \in DOMAIN sessions : s <= o
               IN /\ sessions' = [sessions EXCEPT ![first].queue = Append(@, posts[i].response)]
                  /\ puts' = Append(puts, [session_id |-> first, post |-> i,
                                            response |-> posts[i].response])
                  /\ posts' = [posts EXCEPT ![i].pc = "done", ![i].http = 200]
          ELSE /\ posts' = [posts EXCEPT ![i].pc = "done", ![i].http = 500]
               /\ UNCHANGED <<sessions, puts>>
  /\ UNCHANGED <<fvars, lvars, ovars, uvars, bvars, closed>>

\* if response: await sessions[session_id]["queue"].put(response); a session
\* deleted in the meantime makes the lookup raise KeyError, answered 500
PostPut(i) ==
  /\ i \in 1..Len(posts)
  /\ posts[i].pc = "put"
  /\ IF posts[i].response = None
     THEN /\ posts' = [posts EXCEPT ![i].pc = "done", ![i].http = 200]
          /\ UNCHANGED <<sessions, puts>>
     ELSE IF posts[i].session_id \in DOMAIN sessions
          THEN /\ sessions' = [sessions EXCEPT
                                 ![posts[i].session_id].queue = Append(@, posts[i].response)]
               /\ puts' = Append(puts, [session_id |-> posts[i].session_id, post |-> i,
                                         response |-> posts[i].response])
               /\ posts' = [posts EXCEPT ![i].pc = "done", ![i].http = 200]
          ELSE /\ posts' = [posts EXCEPT ![i].pc = "done", ![i].http = 500]
               /\ UNCHANGED <<sessions, puts>>
  /\ UNCHANGED <<fvars, lvars, ovars, uvars, bvars, closed>>

NextMcp ==
  \/ SseConnect
  \/ \E session_id \in 1..MaxSessions : SseYield(session_id)
  \/ \E session_id \in 1..MaxSessions : SseClose(session_id)
  \/ \E session_id \in 1..MaxSessions, body \in PostedMessages : PostArrive(session_id, body)
  \/ \E i \in 1..MaxPosts, tool \in {"ok", "raises"} : PostProcess(i, tool)
  \/ \E i \in 1..MaxPosts : PostPut(i)

SpecMcp == InitMcp /\ [][NextMcp]_vars

\* ---------------------------------------------------------------------------
\* scripts/generate-tiles-batch.py: process_tiles_ai reading its SSE stream.
\* Tiles are numbered 1..n in manifest order.  stream is the server side:
\* lines on the way to the client and requests not answered yet.
\* ---------------------------------------------------------------------------
InitBatch ==
  /\ sheets = NoFiles
  /\ fs = NoFiles
  /\ outputs = NoFiles
  /\ IdleLib
  /\ IdleOrch
  /\ IdlePure
  /\ IdleNet
  /\ \E n \in 0..MaxTiles :
       batch = [pc |-> "stream", tiles |-> n, session_id |-> "None",
                current_tile_idx |-> 0, current_msg_id |-> 0,
                generation_step |-> "None",
                results |-> [success |-> 0, failed |-> 0], sent |-> <<>>]
  /\ stream = [pc |-> "open", lines |-> <<[type |-> "endpoint"]>>, pending |-> <<>>,
               answered |-> {}, strays |-> 0]

\* _send_generate_pixel_art / _send_export: the request is posted
Send(b, step, tile) ==
  [b EXCEPT !.sent = Append(@, [id |-> b.current_msg_id, step |-> step, tile |-> tile])]

\* "Move to next tile": the next generate request, or break
NextTile(b) ==
  LET moved == [b EXCEPT !.current_tile_idx = @ + 1]
  IN IF moved.current_tile_idx < moved.tiles
     THEN Send([moved EXCEPT !.current_msg_id = @ + 1, !.generation_step = "generate"],
               "generate", moved.current_tile_idx + 1)
     ELSE [moved EXCEPT !.pc = "returned"]

\* The body of "async for line in response.aiter_lines()" for one line
OnLine(b, line) ==
  CASE line.type = "endpoint" /\ b.session_id = "None" ->
         LET named == [b EXCEPT !.session_id = "session"]
         IN IF named.tiles > 0
            THEN Send([named EXCEPT !.current_msg_id = @ + 1, !.generation_step = "generate"],
                      "generate", 1)
            ELSE named
    [] line.type = "json" /\ line.id = b.current_msg_id /\ b.generation_step = "generate" ->
         IF line.outcome = "error" \/ line.outcome # "sprite"
         THEN NextTile([b EXCEPT !.results.failed = @ + 1])
         ELSE Send([b EXCEPT !.current_msg_id = @ + 1, !.generation_step = "export"],
                   "export", b.current_tile_idx + 1)
    [] line.type = "json" /\ line.id = b.current_msg_id /\ b.generation_step = "export" ->
         IF line.outcome = "png"
         THEN NextTile([b EXCEPT !.results.success = @ + 1])
         ELSE NextTile([b EXCEPT !.results.failed = @ + 1])
    [] OTHER -> b

\* The client reads the next line of the stream; the requests it posts now
\* reach the server
ReadLine ==
  /\ batch.pc = "stream"
  /\ stream.lines # <<>>
  /\ batch' = OnLine(batch, Head(stream.lines))
  /\ stream' = [stream EXCEPT
                  !.lines = Tail(@),
                  !.pending = @ \o SubSeq(batch'.sent, Len(batch.sent) + 1, Len(batch'.sent)),
                  !.pc = IF batch'.pc = "returned" THEN "closed" ELSE @]
  /\ UNCHANGED <<fvars, lvars, ovars, uvars, nvars>>

\* The server answers the oldest request it has: an error, a sprite id or
\* neither for generate; PNG data or none for export
ServerAnswer(outcome) ==
  /\ stream.pc = "open"
  /\ stream.pending # <<>>
  /\ outcome \in (IF Head(stream.pending).step = "generate"
                   THEN {"error", "sprite", "nothing"} ELSE {"png", "nothing"})
  /\ stream' = [stream EXCEPT
                  !.lines = Append(@, [type |-> "json", id |-> Head(stream.pending).id,
                                       outcome |-> outcome]),
                  !.pending = Tail(@),
                  !.answered = @ \cup {Head(stream.pending).id}]
  /\ UNCHANGED <<fvars, lvars, ovars, uvars, nvars, batch>>

\* Another line arrives: a keepalive, a notification without id, or a
\* response with an id that was answered before
StrayLine(line) ==
  /\ stream.pc = "open"
  /\ stream.strays < MaxStrays
  /\ line.type = "json" => line.id \in stream.answered \cup {-1}
  /\ stream' = [stream EXCEPT !.lines = Append(@, line), !.strays = @ + 1]
  /\ UNCHANGED <<fvars, lvars, ovars, uvars, nvars, batch>>

NextBatch ==
  \/ ReadLine
  \/ \E outcome \in {"error", "sprite", "png", "nothing"} : ServerAnswer(outcome)
  \/ \E line \in { [type |-> "ping"], [type |-> "endpoint"] } \cup
                 { [type |-> "json", id |-> i, outcome |-> o] :
                     i \in -1..(2 * MaxTiles + 2), o \in {"sprite", "png"} } :
       StrayLine(line)

SpecBatch == InitBatch /\ [][NextBatch]_vars

\* The stream stays open and delivers its lines; the server answers every
\* request
SpecBatchFair ==
  /\ SpecBatch
  /\ WF_vars(ReadLine)
  /\ WF_vars(\E outcome \in {"error", "sprite", "png", "nothing"} : ServerAnswer(outcome))

\* ---------------------------------------------------------------------------
\* Properties
\* ---------------------------------------------------------------------------
\* Cell (r, c) of a sheet has a pixel with non-zero alpha
CellHasAlpha(sheet, r, c) ==
  \E y \in (r * TILE_SIZE)..(r * TILE_SIZE + TILE_SIZE - 1) :
    \E x \in (c * TILE_SIZE)..(c * TILE_SIZE + TILE_SIZE - 1) :
      Pix(sheet, x, y)[4] # 0

GridRows(sheet) == sheet.h \div TILE_SIZE

GridCols(sheet) == sheet.w \div TILE_SIZE

\* The sheet is a whole grid of cells, none of them fully transparent
FullGrid(sheet) ==
  /\ sheet.w = GridCols(sheet) * TILE_SIZE
  /\ sheet.h = GridRows(sheet) * TILE_SIZE
  /\ \A r \in 0..(GridRows(sheet) - 1) : \A c \in 0..(GridCols(sheet) - 1) :
       CellHasAlpha(sheet, r, c)

\* A stitch of a directory that holds exactly the frames sliced from a full
\* grid sheet, with that sheet's rows and cols
RoundTripCase ==
  /\ last.cmd = "stitch"
  /\ last.ok
  /\ prov[last.input] # ""
  /\ FullGrid(sheets[prov[last.input]])
  /\ last.rows = GridRows(sheets[prov[last.input]])
  /\ last.cols = GridCols(sheets[prov[last.input]])

\* C1: slicing a sheet with no fully-transparent cell into an empty directory
\* and stitching that directory with the same rows and cols gives back an
\* image pixel-identical to the sheet.
C1_RoundTrip == RoundTripCase => outputs[last.output] = sheets[prov[last.input]]

C1_Witness ==
  /\ RoundTripCase
  /\ last.rows * last.cols > 1
  /\ \E y \in 0..(outputs[last.output].h - 1) : \E x \in 0..(outputs[last.output].w - 1) :
       Pix(outputs[last.output], x, y)[4] = 0 /\ Pix(outputs[last.output], x, y)[2] # 0

SliceCase == last.cmd = "slice" /\ ~last.raised /\ last.sheet \in DOMAIN sheets

\* C6: slice_sheet writes {r}_{c}.png exactly for the cells that have a pixel
\* with non-zero alpha, writes nothing else, and returns the number of files
\* it wrote.
C6_SliceEmptyCellRule ==
  SliceCase =>
    LET sheet == sheets[last.sheet]
        cells == (0..(GridRows(sheet) - 1)) \X (0..(GridCols(sheet) - 1))
    IN /\ \A rc \in cells :
            FrameFilename(rc[1], rc[2]) \in last.written <=> CellHasAlpha(sheet, rc[1], rc[2])
       /\ last.written \subseteq {FrameFilename(rc[1], rc[2]) : rc \in cells}
       /\ last.written \subseteq DOMAIN fs[last.label]
       /\ last.count = Cardinality(last.written)

\* A slice of a sheet in which only one cell, not the first, has content,
\* the zero-alpha cells including coloured ones
C6_Witness ==
  /\ SliceCase
  /\ last.count >= 1
  /\ ~CellHasAlpha(sheets[last.sheet], 0, 0)
  /\ FrameFilename(0, 0) \notin last.written

StitchCase == last.cmd = "stitch" /\ last.ok

\* Cell (r, c) of image out is pixel-identical to the 64 x 64 frame
CellEquals(out, r, c, frame) ==
  \A y \in 0..(TILE_SIZE - 1) : \A x \in 0..(TILE_SIZE - 1) :
    Pix(out, c * TILE_SIZE + x, r * TILE_SIZE + y) = Pix(frame, x, y)

\* C7: the stitched sheet is cols*64 x rows*64; each cell in range equals its
\* frame file when that exists (64 x 64) and is fully transparent otherwise.
C7_StitchPlacement ==
  StitchCase =>
    LET out == outputs[last.output]
        dir == fs[last.input]
    IN /\ out.w = last.cols * 64
       /\ out.h = last.rows * 64
       /\ \A r \in 0..(last.rows - 1) : \A c \in 0..(last.cols - 1) :
            IF FrameFilename(r, c) \in DOMAIN dir
            THEN LET frame == dir[FrameFilename(r, c)]
                 IN (~frame.bad /\ frame.w = 64 /\ frame.h = 64)
                      => CellEquals(out, r, c, frame)
            ELSE CellEquals(out, r, c, NewImage(64, 64, Clear))

C7_Witness ==
  /\ StitchCase
  /\ last.placed = 1
  /\ last.missing >= 1
  /\ FrameFilename(0, 0) \notin DOMAIN fs[last.input]

TailorCase == last.cmd = "tailor" /\ ~last.raised

HasFrame(dir, name) == dir \in DOMAIN fs /\ name \in DOMAIN fs[dir]

\* The grid cells a standard sheet addresses
GridCells == (0..(SHEET_ROWS - 1)) \X (0..(SHEET_COLS - 1))

\* C4: for every cell whose frame exists in the base layer but not in the
\* overlay layer, the frame the Compositor writes is pixel-identical to the
\* base frame.
C4_AbsentOverlay ==
  TailorCase =>
    \A rc \in GridCells :
      LET name == FrameFilename(rc[1], rc[2])
      IN (HasFrame(last.body, name) /\ ~HasFrame(last.robe, name))
           => /\ HasFrame(last.out, name)
              /\ fs[last.out][name] = fs[last.body][name]

\* A tailor run that wrote a base frame with no overlay, holding both
\* opaque and partly transparent pixels, next to one that had an overlay
C4_Witness ==
  /\ TailorCase
  /\ HasFrame(last.robe, FrameFilename(7, 0))
  /\ HasFrame(last.body, FrameFilename(7, 0))
  /\ HasFrame(last.body, FrameFilename(1, 0))
  /\ ~HasFrame(last.robe, FrameFilename(1, 0))
  /\ HasFrame(last.out, FrameFilename(1, 0))
  /\ Pix(fs[last.body][FrameFilename(1, 0)], 10, 10)[4] \notin {0, 255}

\* C5: where the overlay pixel is fully opaque the composited pixel is the
\* overlay pixel, where it is fully transparent the composited pixel is the
\* base pixel (at every position both frames have).
C5_AlphaOver ==
  TailorCase =>
    \A rc \in GridCells :
      LET name == FrameFilename(rc[1], rc[2])
      IN (HasFrame(last.body, name) /\ HasFrame(last.robe, name)) =>
           /\ HasFrame(last.out, name)
           /\ \A y \in 0..(Min(fs[last.body][name].h, fs[last.robe][name].h) - 1) :
              \A x \in 0..(Min(fs[last.body][name].w, fs[last.robe][name].w) - 1) :
                LET over == Pix(fs[last.robe][name], x, y)
                    base == Pix(fs[last.body][name], x, y)
                    res  == Pix(fs[last.out][name], x, y)
                IN /\ over[4] = 255 => res = over
                   /\ over[4] = 0 => res = base

\* A tailor run over a frame whose overlay has opaque, transparent and
\* half-transparent pixels above a base that is not fully opaque
C5_Witness ==
  /\ TailorCase
  /\ HasFrame(last.body, FrameFilename(0, 1))
  /\ HasFrame(last.robe, FrameFilename(0, 1))
  /\ HasFrame(last.out, FrameFilename(0, 1))
  /\ LET robe == fs[last.robe][FrameFilename(0, 1)]
         body == fs[last.body][FrameFilename(0, 1)]
         out  == fs[last.out][FrameFilename(0, 1)]
     IN /\ body.w = TILE_SIZE /\ body.h = TILE_SIZE
        /\ robe.w = TILE_SIZE /\ robe.h = TILE_SIZE
        /\ Pix(robe, 0, 0)[4] = 0 /\ Pix(body, 0, 0) # Pix(robe, 0, 0)
        /\ Pix(robe, 51, 0)[4] = 255 /\ Pix(body, 51, 0) # Pix(robe, 51, 0)
        /\ Pix(robe, 10, 0)[4] \notin {0, 255}
        /\ Pix(out, 10, 0) \notin {Pix(robe, 10, 0), Pix(body, 10, 0)}

\* The positions of the coverage region that lie in the image
RegionOf(img) ==
  { p \in (CHEST_BOX.x1..(CHEST_BOX.x2 - 1)) \X (CHEST_BOX.y1..(CHEST_BOX.y2 - 1)) :
      p[1] < img.w /\ p[2] < img.h }

ValidateCase == pout.kind = "validate"

SkinCase == pout.kind = "skin"

\* (r, g, b) lies inside flesh-tone range number i
InRange(i, p) ==
  /\ SKIN_TONES[i].r_min <= p[1] /\ p[1] <= SKIN_TONES[i].r_max
  /\ SKIN_TONES[i].g_min <= p[2] /\ p[2] <= SKIN_TONES[i].g_max
  /\ SKIN_TONES[i].b_min <= p[3] /\ p[3] <= SKIN_TONES[i].b_max

\* C3 as stated: skin exactly when alpha >= 200 and the colour lies in one of
\* the ranges, nothing else deciding.
C3_RangesAlone ==
  SkinCase => (pout.value <=> (pin.pixel[4] >= 200 /\ \E i \in 1..3 : InRange(i, pin.pixel)))

\* C3 amended: skin exactly when alpha >= 200, the colour lies in one of the
\* ranges, and r >= g and g >= 0.9 * b.
C3_SkinClassifier ==
  SkinCase =>
    (pout.value <=> /\ pin.pixel[4] >= 200
                    /\ \E i \in 1..3 : InRange(i, pin.pixel)
                    /\ pin.pixel[1] >= pin.pixel[2]
                    /\ 10 * pin.pixel[2] >= 9 * pin.pixel[3])

\* An opaque pixel inside a range that the ordering test rejects
C3_Witness ==
  /\ SkinCase
  /\ pin.pixel[4] >= 200
  /\ \E i \in 1..3 : InRange(i, pin.pixel)
  /\ ~pout.value

DefaultMode == pc # "idle" /\ ~flags.skip_slice /\ ~flags.validate_only

PhaseOrder == <<"SLICING", "TAILORING", "STITCHING", "COMPLETE">>

Ran(phase) == \E i \in 1..Len(started) : started[i] = phase

Exited(phase) == phase \in DOMAIN status

\* C8: in default mode the phases start in the order SLICING, TAILORING,
\* STITCHING, each at most once and only when every phase started before has
\* exited; completion and exit status 0 come only after STITCHING ran and
\* exited with status 0.
C8_PhaseOrder ==
  DefaultMode =>
    /\ Len(started) <= 4
    /\ \A i \in 1..Len(started) : started[i] = PhaseOrder[i]
    /\ \A i \in 1..(Len(started) - 1) : Exited(started[i])
    /\ (Ran("COMPLETE") \/ pc = "done") => (Exited("STITCHING") /\ status["STITCHING"] = 0)

\* A default run that went through the three phases and returned 0
C8_Witness ==
  /\ DefaultMode
  /\ pc = "done"
  /\ started = PhaseOrder
  /\ \A ph \in {"SLICING", "TAILORING", "STITCHING"} : status[ph] = 0
  /\ "out.png" \in DOMAIN outputs

CompositeFiles == [d \in {e \in DOMAIN fs : e = CompositeDir("out")} |-> fs[d]]

\* C10: under --validate-only no step writes a file to a composite directory
\* and no stitched sheet is produced.
C10_ValidateOnlyWritesNothing ==
  [][flags.validate_only => (CompositeFiles' = CompositeFiles /\ outputs' = outputs)]_vars

\* The tailor child of a pipeline run that composites has exited with status 0
TailoredCase ==
  /\ last.cmd = "pipeline"
  /\ "results" \in DOMAIN last
  /\ ~flags.validate_only
  /\ Exited("TAILORING")
  /\ status["TAILORING"] = 0

\* Base-layer frame files of the job that tailor_frames composites
JobFrames(dir) ==
  IF dir \in DOMAIN fs
  THEN {n \in PngNames(fs[dir]) : Len(SplitUnderscore(RemovePng(n), <<>>)) = 2}
  ELSE {}

\* C11: after a tailor phase that completed, every base frame of the job is in
\* the composite directory, frames that failed validation included; main then
\* goes on to STITCHING and never ends without having run it; the stitched
\* sheet holds every validated frame of its grid, failed ones included.
C11_ValidationAdvisory ==
  TailoredCase =>
    /\ \A n \in JobFrames("body") : HasFrame(CompositeDir("out"), n)
    /\ \A i \in 1..Len(last.results) :
         HasFrame(CompositeDir("out"), FrameFilename(last.results[i].row, last.results[i].col))
    /\ pc \in {"stitch", "stitching", "report", "done", "failed"}
    /\ pc \in {"report", "done", "failed"} => Ran("STITCHING")
    /\ (Exited("STITCHING") /\ status["STITCHING"] = 0) =>
         \A i \in 1..Len(last.results) :
           LET r == last.results[i].row
               c == last.results[i].col
           IN (r < 8 /\ c < 1) =>
                CellEquals(outputs["walk.png"], r, c,
                           fs[CompositeDir("out")][FrameFilename(r, c)])

\* A run that ended with status 0 although frame 7_0 failed validation; the
\* later frame 8_0 was written and the stitched sheet shows the skin of 7_0
C11_Witness ==
  /\ TailoredCase
  /\ pc = "done"
  /\ \E i \in 1..Len(last.results) :
       /\ ~last.results[i].passed
       /\ last.results[i].row = 7
       /\ last.results[i].col = 0
  /\ HasFrame(CompositeDir("out"), FrameFilename(8, 0))
  /\ "walk.png" \in DOMAIN outputs
  /\ Pix(outputs["walk.png"], CHEST_BOX.x1, 7 * TILE_SIZE + CHEST_BOX.y1) = SkinColor

\* The (row, col) tailor_frames reads from a file name; ok = FALSE when the
\* name is skipped or makes int() raise
TailorKey(n) ==
  LET parts == SplitUnderscore(RemovePng(n), <<>>)
  IN IF Len(parts) # 2 THEN [ok |-> FALSE, r |-> 0, c |-> 0]
     ELSE [ok |-> ParseInt(parts[1]).ok /\ ParseInt(parts[2]).ok,
           r |-> ParseInt(parts[1]).val, c |-> ParseInt(parts[2]).val]

\* The frame files of a directory that tailor_frames takes as a cell
KeyedFrames(dir) == { n \in DOMAIN DirOf(fs, dir) : EndsWithPng(n) /\ TailorKey(n).ok }

\* C12: tailor_frames returns one ValidationResult for each base frame whose
\* row is 7, 8, 9 or 10 and none for any other frame; the frames of the other
\* rows are written to the output directory all the same.
C12_ValidatedFrameSet ==
  TailorCase =>
    /\ \A i \in 1..Len(last.results) :
         /\ last.results[i].row \in {7, 8, 9, 10}
         /\ \E n \in KeyedFrames(last.body) :
              TailorKey(n).r = last.results[i].row /\ TailorKey(n).c = last.results[i].col
    /\ \A n \in KeyedFrames(last.body) :
         /\ HasFrame(last.out, n)
         /\ Cardinality({i \in 1..Len(last.results) :
                           /\ last.results[i].row = TailorKey(n).r
                           /\ last.results[i].col = TailorKey(n).c})
              = IF TailorKey(n).r \in {7, 8, 9, 10}
                THEN Cardinality({m \in KeyedFrames(last.body) : TailorKey(m) = TailorKey(n)})
                ELSE 0

\* A tailor run over frames of rows 0, 7 and 10: two results (10_1.png sorts
\* before 7_0.png), three files
C12_Witness ==
  /\ TailorCase
  /\ Len(last.results) = 2
  /\ last.results[1].row = 10
  /\ last.results[2].row = 7
  /\ HasFrame(last.body, FrameFilename(0, 0))
  /\ HasFrame(last.out, FrameFilename(0, 0))

\* C13: for tolerances t1 <= t2 on the same frame, a pass with t1 is a pass
\* with t2, and the violation count reported with t2 is the one reported
\* with t1.
C13_ToleranceMonotone ==
  ValidateCase =>
    \A t2 \in pin.tolerance..MaxTolerance :
      LET again == validate_coverage(pin.frame, 7, 0, t2)
      IN /\ pout.value.passed => again.passed
         /\ again.leak_count = pout.value.leak_count

\* A frame that fails with the tolerance it was given and passes with a
\* larger one of the range
C13_Witness ==
  /\ ValidateCase
  /\ ~pout.value.passed
  /\ pout.value.leak_count > 0
  /\ pout.value.leak_count <= MaxTolerance
  /\ validate_coverage(pin.frame, 7, 0, MaxTolerance).passed

\* Every result of the last tailor run is what validate_coverage returns for
\* the written frame on its own
StandaloneResults ==
  TailorCase =>
    \A i \in 1..Len(last.results) :
      LET r == last.results[i].row
          c == last.results[i].col
      IN \E n \in KeyedFrames(last.out) :
           /\ TailorKey(n).r = r
           /\ TailorKey(n).c = c
           /\ last.results[i] = validate_coverage(fs[last.out][n], r, c, DEFAULT_TOLERANCE)

\* A tailor run repeated on unchanged base and overlay frames returns the
\* results of the run before
RepeatedRun ==
  (/\ last.cmd = "tailor" /\ ~last.raised
   /\ last'.cmd = "tailor" /\ ~last'.raised
   /\ last'.body = last.body /\ last'.robe = last.robe
   /\ DirOf(fs', last.body) = DirOf(fs, last.body)
   /\ DirOf(fs', last.robe) = DirOf(fs, last.robe))
    => last'.results = last.results

C15_FullRegionCount ==
  (/\ ValidateCase
   /\ pin.frame = NewImage(TILE_SIZE, TILE_SIZE, <<210, 170, 150, 255>>)
   /\ pin.tolerance = DEFAULT_TOLERANCE)
    => (~pout.value.passed /\ pout.value.leak_count = 19 * 21)

\* C16: every frame file written by the Slicer or by the Compositor is
\* exactly 64 x 64, whatever the sheet size and whatever base frame the
\* Compositor was given.
C16_FrameSize ==
  /\ SliceCase =>
       \A n \in last.written : fs[last.label][n].w = 64 /\ fs[last.label][n].h = 64
  /\ TailorCase =>
       \A n \in JobFrames(last.body) :
         HasFrame(last.out, n) /\ fs[last.out][n].w = 64 /\ fs[last.out][n].h = 64

\* No sheet file of the config is undecodable
SheetsReadable ==
  \A i \in 1..Len(cfg.sheets) :
    cfg.sheets[i].path \in DOMAIN sheets => ~sheets[cfg.sheets[i].path].bad

\* No frame file of a composite directory of the config is undecodable
FramesReadable ==
  \A i \in 1..Len(cfg.outputs) :
    LET dir == CompositeDir(cfg.outputs[i].label)
    IN dir \in DOMAIN fs => \A n \in DOMAIN fs[dir] : ~fs[dir][n].bad

\* The slice child over a readable config: a job whose sheet is missing
\* returns 0 and leaves its directory as it was, not even created; every
\* job is processed and the child exits 0
SliceMissingSheet ==
  (pc = "slicing" /\ pc' # "slicing" /\ cfg.present /\ SheetsReadable) =>
    /\ status'["SLICING"] = 0
    /\ Len(last'.counts) = Len(cfg.sheets)
    /\ \A i \in 1..Len(cfg.sheets) :
         LET job == cfg.sheets[i]
         IN IF job.path \notin DOMAIN sheets
            THEN /\ last'.counts[i] = 0
                 /\ (job.label \in DOMAIN fs') = (job.label \in DOMAIN fs)
                 /\ DirOf(fs', job.label) = DirOf(fs, job.label)
            ELSE /\ job.label \in DOMAIN fs'
                 /\ last'.counts[i] =
                      Cardinality({rc \in (0..(GridRows(sheets[job.path]) - 1))
                                           \X (0..(GridCols(sheets[job.path]) - 1)) :
                                     CellHasAlpha(sheets[job.path], rc[1], rc[2])})
                 /\ \A rc \in (0..(GridRows(sheets[job.path]) - 1))
                                \X (0..(GridCols(sheets[job.path]) - 1)) :
                      CellHasAlpha(sheets[job.path], rc[1], rc[2])
                        => FrameFilename(rc[1], rc[2]) \in DOMAIN fs'[job.label]

\* The stitch child over a readable config: a job whose input directory is
\* missing returns False and writes no output file; every job is processed
StitchMissingDir ==
  (pc = "stitching" /\ pc' # "stitching" /\ cfg.present /\ FramesReadable) =>
    /\ status'["STITCHING"] = 0
    /\ Len(last'.oks) = Len(cfg.outputs)
    /\ \A i \in 1..Len(cfg.outputs) :
         LET job == cfg.outputs[i]
         IN IF CompositeDir(job.label) \notin DOMAIN fs
            THEN /\ ~last'.oks[i]
                 /\ job.path \notin DOMAIN outputs'
            ELSE /\ last'.oks[i]
                 /\ job.path \in DOMAIN outputs'
                 /\ outputs'[job.path].w = job.cols * TILE_SIZE
                 /\ outputs'[job.path].h = job.rows * TILE_SIZE

\* C17: a slice task whose sheet does not exist returns 0, writes nothing and
\* raises nothing; a stitch task whose input directory does not exist returns
\* False and writes no output; the other tasks of the config are processed.
C17_MissingInputPolicy == [][SliceMissingSheet /\ StitchMissingDir]_vars

\* A finished run whose first sheet and first output directory were missing:
\* the first slice returned 0 and made no directory, the second sheet was
\* sliced; the first stitch returned False, the later outputs were written
C17_Witness ==
  /\ pc = "done"
  /\ "counts" \in DOMAIN last
  /\ "oks" \in DOMAIN last
  /\ "body.png" \notin DOMAIN sheets
  /\ last.counts[1] = 0
  /\ last.counts[2] > 0
  /\ "body" \notin DOMAIN fs
  /\ FrameFilename(0, 0) \in DOMAIN fs["robe"]
  /\ last.oks = <<FALSE, TRUE, TRUE>>
  /\ "gone.png" \notin DOMAIN outputs
  /\ "out.png" \in DOMAIN outputs
  /\ "walk.png" \in DOMAIN outputs

\* Every frame file of the tailor jobs is named {r}_{c}.png and decodable
TailorInputsSound ==
  \A i \in 1..Len(cfg.tailor_jobs) :
    /\ \A n \in PngNames(DirOf(fs, cfg.tailor_jobs[i].body_label)) :
         /\ \E rc \in GridCells : n = FrameFilename(rc[1], rc[2])
         /\ ~fs[cfg.tailor_jobs[i].body_label][n].bad
    /\ \A n \in DOMAIN DirOf(fs, cfg.tailor_jobs[i].robe_label) :
         ~fs[cfg.tailor_jobs[i].robe_label][n].bad

\* The phase had its config and inputs it could read
CompletesStructurally(phase) ==
  /\ cfg.present
  /\ CASE phase = "SLICING" ->
            /\ SheetsReadable
            /\ \A i \in 1..Len(cfg.sheets) : cfg.sheets[i].path \in DOMAIN sheets
       [] phase = "TAILORING" -> TailorInputsSound
       [] phase = "STITCHING" -> FramesReadable

\* A required input of the phase is missing: the config file, or for the
\* slice command a sheet file
RequiredInputMissing(phase) ==
  \/ ~cfg.present
  \/ /\ phase = "SLICING"
     /\ \E i \in 1..Len(cfg.sheets) : cfg.sheets[i].path \notin DOMAIN sheets

\* C18: a phase command exits 0 when it completes structurally, validation
\* failures included, and exits non-zero when a required input (a sheet
\* file, the config file) is missing.
C18_ExitCodes ==
  \A phase \in DOMAIN status :
    /\ CompletesStructurally(phase) => status[phase] = 0
    /\ RequiredInputMissing(phase) => status[phase] # 0

\* Frame file n of the base directory is named {r}_{c}.png and it and its
\* overlay, if any, are decodable
SoundFrame(body_label, robe_label, n) ==
  /\ \E rc \in GridCells : n = FrameFilename(rc[1], rc[2])
  /\ ~fs[body_label][n].bad
  /\ HasFrame(robe_label, n) => ~fs[robe_label][n].bad

\* C19: a parse or I/O failure on one frame or one sheet makes only that unit
\* be skipped: the command still exits 0, every other frame of the job is
\* composited and written, and every other sheet of the config is sliced.
C19_ExceptionContainment ==
  /\ (Exited("TAILORING") /\ cfg.present) =>
       /\ status["TAILORING"] = 0
       /\ \A i \in 1..Len(cfg.tailor_jobs) :
            LET job == cfg.tailor_jobs[i]
            IN \A n \in PngNames(DirOf(fs, job.body_label)) :
                 SoundFrame(job.body_label, job.robe_label, n)
                   => HasFrame(CompositeDir(job.output_label), n)
  /\ (Exited("SLICING") /\ cfg.present) =>
       /\ status["SLICING"] = 0
       /\ \A i \in 1..Len(cfg.sheets) :
            (cfg.sheets[i].path \in DOMAIN sheets /\ ~sheets[cfg.sheets[i].path].bad)
              => cfg.sheets[i].label \in DOMAIN fs

\* The source coordinate nearest-neighbour sampling reads for output
\* coordinate x when n source pixels are spread over TILE_SIZE: the pixel
\* whose span holds the centre of output pixel x
NearestSource(x, n) ==
  CHOOSE sx \in 0..(n - 1) :
    /\ 2 * TILE_SIZE * sx <= (2 * x + 1) * n
    /\ (2 * x + 1) * n < 2 * TILE_SIZE * (sx + 1)

\* Cell (r, c) of image out is the frame scaled to the cell by
\* nearest-neighbour sampling, pixel for pixel
CellIsScaled(out, r, c, frame) ==
  LET mapx == [x \in 0..(TILE_SIZE - 1) |-> NearestSource(x, frame.w)]
      mapy == [y \in 0..(TILE_SIZE - 1) |-> NearestSource(y, frame.h)]
  IN \A y \in 0..(TILE_SIZE - 1) : \A x \in 0..(TILE_SIZE - 1) :
       Pix(out, c * TILE_SIZE + x, r * TILE_SIZE + y) = Pix(frame, mapx[x], mapy[y])

\* C20: stitching a directory that has frames of another size than 64 x 64
\* succeeds; the cell of such a frame holds the frame scaled to 64 x 64 by
\* nearest-neighbour sampling, and every other cell holds its own frame or,
\* with no frame file, stays transparent.
C20_StitcherSizeCorrection ==
  (last.cmd = "stitch" /\ last.input \in DOMAIN fs) =>
    /\ last.ok
    /\ ~last.raised
    /\ \A r \in 0..(last.rows - 1) : \A c \in 0..(last.cols - 1) :
         LET name == FrameFilename(r, c)
             out  == outputs[last.output]
         IN IF HasFrame(last.input, name)
            THEN IF fs[last.input][name].w = 64 /\ fs[last.input][name].h = 64
                 THEN CellEquals(out, r, c, fs[last.input][name])
                 ELSE CellIsScaled(out, r, c, fs[last.input][name])
            ELSE CellEquals(out, r, c, NewImage(64, 64, Clear))

\* A stitch that placed a frame larger than a cell above a cell with no
\* frame file
C20_Witness ==
  /\ last.cmd = "stitch"
  /\ last.input \in DOMAIN fs
  /\ last.rows >= 2
  /\ HasFrame(last.input, FrameFilename(0, 0))
  /\ fs[last.input][FrameFilename(0, 0)].w > 64
  /\ fs[last.input][FrameFilename(0, 0)].h > 64
  /\ ~HasFrame(last.input, FrameFilename(1, 0))
  /\ Pix(outputs[last.output], 63, 63)
       = Pix(fs[last.input][FrameFilename(0, 0)], 69, 69)

\* C21: a sheet whose width or height is not the expected 13 x 64 by 21 x 64
\* is reported with a warning and resized to that size before its cells are
\* cropped, so the grid that is cropped is the expected one.
C21_DimensionCorrection ==
  SliceCase =>
    ((sheets[last.sheet].w # SHEET_COLS * TILE_SIZE
        \/ sheets[last.sheet].h # SHEET_ROWS * TILE_SIZE)
       => (last.warned /\ last.rows = SHEET_ROWS /\ last.cols = SHEET_COLS))

\* C22: after any sequence of slices into one label directory, {r}_{c}.png
\* exists there exactly when cell (r, c) of the sheet sliced last is not
\* empty.
C22_ExistenceSignalsContent ==
  SliceCase =>
    LET sheet == sheets[last.sheet]
        cells == (0..(GridRows(sheet) - 1)) \X (0..(GridCols(sheet) - 1))
    IN /\ \A rc \in cells :
            CellHasAlpha(sheet, rc[1], rc[2])
              => FrameFilename(rc[1], rc[2]) \in DOMAIN fs[last.label]
       /\ \A n \in DOMAIN fs[last.label] :
            \E rc \in cells :
              n = FrameFilename(rc[1], rc[2]) /\ CellHasAlpha(sheet, rc[1], rc[2])

\* ---------------------------------------------------------------------------
\* Thinness checks: a robe layer on its own
\* ---------------------------------------------------------------------------
RobeOnlyCase == pout.kind = "robe_only" /\ pin.row \in WALK_ROWS

ChestCase == pout.kind = "chest"

\* Number of coverage-region pixels of a frame with alpha > 200
CoveredAbove200(frame) ==
  Cardinality({ p \in RegionOf(frame) : Pix(frame, p[1], p[2])[4] > 200 })

\* The sheet the generator checked
CheckedSheet == RobeSheet(pin.special, pin.seed, pin.row, pin.col)

\* The stride-2 sample points of frame (r, c), as sheet positions
SamplePoints(r, c) ==
  { <<c * TILE_SIZE + 24 + 2 * i, r * TILE_SIZE + 28 + 2 * j>> : i \in 0..9, j \in 0..10 }

\* Number of sample points of frame (r, c) whose alpha exceeds a
SampledAbove(sheet, r, c, a) ==
  Cardinality({ p \in SamplePoints(r, c) : Pix(sheet, p[1], p[2])[4] > a })

Flagged(r, c) == \E i \in 1..Len(pout.errors) : pout.errors[i].row = r /\ pout.errors[i].col = c

ValidatedFrames == (7..10) \X (0..8)

StitchedTailored ==
  /\ StitchCase
  /\ last.input = "composite"
  /\ "composite" \in DOMAIN fs

\* C24: every frame the Compositor took as cell (r, c) and wrote is found by
\* a later stitch (r < rows, c < cols) in cell (r, c) of the final sheet; and
\* the name the Slicer gives to cell (r, c) is read back as (r, c).
C24_JoinKey ==
  /\ StitchedTailored =>
       \A n \in DOMAIN fs["composite"] :
         LET k     == TailorKey(n)
             frame == fs["composite"][n]
             out   == outputs[last.output]
         IN (k.ok /\ k.r >= 0 /\ k.r < last.rows /\ k.c >= 0 /\ k.c < last.cols)
              => IF frame.w = TILE_SIZE /\ frame.h = TILE_SIZE
                 THEN CellEquals(out, k.r, k.c, frame)
                 ELSE CellIsScaled(out, k.r, k.c, frame)
  /\ \A rc \in GridCells :
       TailorKey(FrameFilename(rc[1], rc[2])) = [ok |-> TRUE, r |-> rc[1], c |-> rc[2]]

\* ---------------------------------------------------------------------------
\* What a Tailor job writes, and which layer is on top
\* ---------------------------------------------------------------------------
\* A .png name of the form a_b
TwoPart(n) == EndsWithPng(n) /\ Len(SplitUnderscore(RemovePng(n), <<>>)) = 2

JobNames ==
  DOMAIN DirOf(fs, last.body) \cup DOMAIN DirOf(fs, last.robe) \cup DOMAIN DirOf(fs, last.out)

\* The pixels of out are the overlay wherever the overlay is opaque and the
\* base wherever the overlay is transparent or does not reach
OverlayOnTop(out, base, overlay) ==
  /\ out.w = base.w
  /\ out.h = base.h
  /\ \A y \in 0..(base.h - 1) : \A x \in 0..(base.w - 1) :
       IF x < overlay.w /\ y < overlay.h
       THEN /\ Pix(overlay, x, y)[4] = 255 => Pix(out, x, y) = Pix(overlay, x, y)
            /\ Pix(overlay, x, y)[4] = 0 => Pix(out, x, y) = Pix(base, x, y)
       ELSE Pix(out, x, y) = Pix(base, x, y)

\* C25: after a Tailor job the output directory holds a frame named N exactly
\* when the base directory holds a frame N with a two-part name; each output
\* frame is its base frame with the overlay, where there is one, drawn on
\* top; a frame found only in the overlay directory gives no output.
C25_OutputSetAndOrder ==
  TailorCase =>
    /\ \A n \in JobNames :
         HasFrame(last.out, n) <=> (HasFrame(last.body, n) /\ TwoPart(n))
    /\ \A n \in DOMAIN DirOf(fs, last.out) :
         HasFrame(last.body, n) =>
           IF HasFrame(last.robe, n)
           THEN OverlayOnTop(fs[last.out][n], fs[last.body][n], fs[last.robe][n])
           ELSE fs[last.out][n] = fs[last.body][n]

\* A job over a base directory with a three-part name and an overlay
\* directory with a frame the base lacks; in frame 0_0 an opaque overlay
\* pixel lies over an opaque base pixel of another colour
C25_Witness ==
  /\ TailorCase
  /\ HasFrame(last.body, Name(<<"7", "_", "0", "_", "1">>))
  /\ ~HasFrame(last.out, Name(<<"7", "_", "0", "_", "1">>))
  /\ HasFrame(last.robe, FrameFilename(7, 0))
  /\ ~HasFrame(last.body, FrameFilename(7, 0))
  /\ ~HasFrame(last.out, FrameFilename(7, 0))
  /\ HasFrame(last.robe, FrameFilename(0, 0))
  /\ HasFrame(last.out, FrameFilename(0, 0))
  /\ Pix(fs[last.body][FrameFilename(0, 0)], 40, 0)[4] = 255
  /\ Pix(fs[last.robe][FrameFilename(0, 0)], 40, 0)[4] = 255
  /\ Pix(fs[last.body][FrameFilename(0, 0)], 40, 0) # Pix(fs[last.robe][FrameFilename(0, 0)], 40, 0)
  /\ Pix(fs[last.out][FrameFilename(0, 0)], 40, 0) = Pix(fs[last.robe][FrameFilename(0, 0)], 40, 0)

\* ---------------------------------------------------------------------------
\* The orchestrator after a failed child
\* ---------------------------------------------------------------------------
\* C26: once the SLICING child has exited non-zero, TAILORING and STITCHING
\* are never started and main has returned 1; once the STITCHING child has
\* exited non-zero, "Pipeline complete" is never reported and main has
\* returned 1.
C26_FailureExits ==
  /\ (Exited("SLICING") /\ status["SLICING"] # 0)
       => /\ ~Ran("TAILORING")
          /\ ~Ran("STITCHING")
          /\ ~Ran("COMPLETE")
          /\ pc = "failed"
  /\ (Exited("STITCHING") /\ status["STITCHING"] # 0)
       => /\ ~Ran("COMPLETE")
          /\ pc = "failed"

\* A run whose slice and tailor children exited 0 and whose stitch child
\* exited 1: main returned 1 without reporting
C26_Witness ==
  /\ Exited("SLICING")
  /\ status["SLICING"] = 0
  /\ Exited("TAILORING")
  /\ Exited("STITCHING")
  /\ status["STITCHING"] = 1
  /\ started = <<"SLICING", "TAILORING", "STITCHING">>
  /\ pc = "failed"

\* ---------------------------------------------------------------------------
\* The character builder's layer order
\* ---------------------------------------------------------------------------
CharacterDone == pout.kind = "character" /\ pout.pc = "done"

\* The z a found category is composited with
DeclaredZ(cat) ==
  IF cat = "body" THEN 10
  ELSE IF "layer_1" \in DOMAIN pin.defs[cat] /\ "zPos" \in DOMAIN pin.defs[cat].layer_1
       THEN pin.defs[cat].layer_1.zPos
       ELSE 50

\* Category a is composited before category b
DrawnBefore(a, b) ==
  \/ DeclaredZ(a) < DeclaredZ(b)
  \/ DeclaredZ(a) = DeclaredZ(b) /\ CatIndex(a) < CatIndex(b)

\* Sample points: frame columns 0..5 of the first and the last row
CharacterSamples == { <<FRAME_WIDTH * c + 5, FRAME_HEIGHT * r + 9>> : c \in 0..5, r \in {0, SHEET_ROWS - 1} }

\* The categories composited that are opaque at point p
OpaqueAt(p) ==
  { cat \in pin.found \cap pin.loads : LayerPixel(cat, p[1], p[2])[4] = 255 }

\* Pixel (x, y) of the result is px, channel by channel
ResultShows(drawn, x, y, px) ==
  \A k \in 1..4 : Pix(ResultOf(drawn), x, y)[k] = px[k]

DispatchCase == pout.kind = "dispatch"

HasId(message) == message.id \notin {"absent", "null"}

\* The handler of the message fails: a tool call that names no tool or whose
\* tool raises
HandlerFails(message, tool) ==
  message.method = "tools/call" /\ (message.params.name \notin TOOLS \/ tool = "raises")

\* C29: a request with an id for a registered method whose handler does not
\* fail is answered with a result, the empty object for ping and initialized;
\* error -32601 is given only for an unregistered method and error -32603
\* only for a handler that fails.
C29_MethodDispatch ==
  DispatchCase =>
    LET m == pin.message
        r == pout.response
    IN /\ (HasId(m) /\ m.method \in MCP_HANDLERS /\ ~HandlerFails(m, pin.tool))
            => /\ r.kind = "result"
               /\ r.id = m.id
               /\ m.method \in {"ping", "initialized"} => r.result = <<>>
       /\ (r.kind = "error" /\ r.code = -32601) => m.method \notin MCP_HANDLERS
       /\ (r.kind = "error" /\ r.code = -32603) => HandlerFails(m, pin.tool)

\* ---------------------------------------------------------------------------
\* MCP response routing
\* ---------------------------------------------------------------------------
\* The queue.put calls made for POST number i
PutsOf(i) == { k \in 1..Len(puts) : puts[k].post = i }

\* POST number i carries an id and its session exists and was never closed
RoutedCase(i) ==
  /\ HasId(posts[i].body)
  /\ posts[i].http # 404
  /\ posts[i].session_id \in DOMAIN sessions

\* Every answered request with an id on a session that stays open has exactly
\* one response put, on its own session's queue and with its own id; before
\* it is answered it has none; a POST answered 404 has nothing processed or
\* queued
RoutingInvariant ==
  \A i \in 1..Len(posts) :
    /\ RoutedCase(i) =>
         IF posts[i].pc = "done"
         THEN /\ Cardinality(PutsOf(i)) = 1
              /\ \A k \in PutsOf(i) :
                   /\ puts[k].session_id = posts[i].session_id
                   /\ puts[k].response.id = posts[i].body.id
              /\ posts[i].http = 200
         ELSE PutsOf(i) = {}
    /\ \A k \in PutsOf(i) : puts[k].session_id = posts[i].session_id
    /\ posts[i].http = 404 => (PutsOf(i) = {} /\ posts[i].response = None /\ posts[i].pc = "done")

\* A POST that arrives for a session that is not open is answered 404 at
\* once and leaves every queue as it was
UnknownSessionRule ==
  (Len(posts') = Len(posts) + 1 /\ posts'[Len(posts')].session_id \notin DOMAIN sessions)
    => /\ posts'[Len(posts')].http = 404
       /\ posts'[Len(posts')].pc = "done"
       /\ sessions' = sessions
       /\ puts' = puts

\* C28: for every request with an id posted to a session that exists and
\* stays open, exactly one response with that id is put on that session's
\* queue and none on another's, whatever the interleaving of POSTs and SSE
\* connections; a POST naming an unknown or closed session is answered 404
\* and nothing is processed or queued.
C28_ResponseRouting == [](RoutingInvariant) /\ [][UnknownSessionRule]_vars

\* Two requests with the same id were posted to two open sessions and
\* answered, the second one first: each session got the response to its own
\* request
C28_Witness ==
  /\ Len(posts) = 2
  /\ posts[1].session_id = 1
  /\ posts[2].session_id = 2
  /\ posts[1].body.id = "1"
  /\ posts[2].body.id = "1"
  /\ posts[1].body.method # posts[2].body.method
  /\ posts[1].pc = "done"
  /\ posts[2].pc = "done"
  /\ DOMAIN sessions = {1, 2}
  /\ Len(puts) = 2
  /\ puts[1].post = 2
  /\ puts[1].session_id = 2
  /\ puts[2].post = 1
  /\ puts[2].session_id = 1

\* ---------------------------------------------------------------------------
\* The batch generator's accounting and termination
\* ---------------------------------------------------------------------------
Returned == batch.pc = "returned"

\* The generate requests sent so far, as tile numbers
Submitted == SelectSeq(batch.sent, LAMBDA r : r.step = "generate")

\* Requests sent whose response the client has not read yet
Outstanding ==
  { i \in 1..Len(batch.sent) :
      \/ \E k \in 1..Len(stream.pending) : stream.pending[k].id = batch.sent[i].id
      \/ /\ batch.sent[i].id = batch.current_msg_id
         /\ batch.pc = "stream" }

\* The tiles are submitted once each, in manifest order; one request at most
\* is outstanding; on return every tile is counted once
BatchAccounting ==
  /\ \A i \in 1..Len(Submitted) : Submitted[i].tile = i
  /\ Len(Submitted) <= batch.tiles
  /\ Cardinality(Outstanding) <= 1
  /\ Returned =>
       /\ batch.results.success + batch.results.failed = batch.tiles
       /\ Len(Submitted) = batch.tiles

\* The client is not left waiting on a stream that owes it nothing: no
\* request unanswered, no line unread, and the function has not returned
NeverStranded ==
  ~(/\ batch.pc = "stream"
    /\ batch.session_id # "None"
    /\ stream.pending = <<>>
    /\ stream.lines = <<>>)

\* Reading a line that is not the response to the current request leaves the
\* locals as they are
StrayIgnored ==
  (/\ batch.pc = "stream"
   /\ stream.lines # <<>>
   /\ batch.session_id # "None"
   /\ Len(stream'.lines) < Len(stream.lines)
   /\ (Head(stream.lines).type # "json" \/ Head(stream.lines).id # batch.current_msg_id))
    => batch' = batch

\* C30: for any tile list, the empty one included, on a stream that stays
\* open and answers every request, process_tiles_ai eventually returns; it is
\* never left waiting with nothing outstanding; on return success + failed
\* is the number of tiles; each tile is submitted once, in manifest order;
\* at most one request is outstanding; a response with another id than the
\* current one changes nothing.
C30_BatchTermination ==
  /\ [](BatchAccounting /\ NeverStranded)
  /\ [][StrayIgnored]_vars
  /\ <>Returned

====
